---- MODULE Spec2Model ----
(***************************************************************************)
(* Model of the quizly quiz-creation pipeline and the per-quiz CRUD views. *)
(*                                                                         *)
(* Worker threads of one server process each handle one HTTP request at a  *)
(* time.  POST /createQuiz/ runs the pipeline of CreateQuizView.post:      *)
(* resolve the video id, download audio into a temporary directory,        *)
(* transcribe it with the process-wide Whisper model, generate the quiz    *)
(* with the AI service, validate it and write it in one transaction.       *)
(* GET/PATCH/DELETE /quizzes/<pk>/ are the handlers of GetQuizByIdView.    *)
(*                                                                         *)
(* Text is modelled as sequences of one-character strings so that          *)
(* str.strip(), str.lower() and the path matching are computed, not        *)
(* assumed.  A decoded JSON value is a record [t |-> type, v |-> value].   *)
(***************************************************************************)
EXTENDS Integers, Sequences, FiniteSets, TLC

\* The number of HTTP requests the run accepts.
MaxRequests == 2

\* Program constants of validate_quiz_json.
MaxDescription == 500
NumQuestions == 10
NumOptions == 4

Threads == {"t1", "t2"}
Users == {"alice", "bob"}
\* The users that create quizzes; every user reads, patches and deletes.
Posters == {"alice"}

----------------------------------------------------------------------------
(* Python text and decoded JSON values *)

IsSpace(c) == c \in {" ", "\n", "\t"}

RECURSIVE LStrip(_)
LStrip(s) == IF s # <<>> /\ IsSpace(Head(s)) THEN LStrip(Tail(s)) ELSE s

RECURSIVE RStrip(_)
RStrip(s) ==
    IF s # <<>> /\ IsSpace(s[Len(s)]) THEN RStrip(SubSeq(s, 1, Len(s) - 1)) ELSE s

\* str.strip()
Strip(s) == RStrip(LStrip(s))

\* Python None, which is also what JSON null decodes to.
None == [t |-> "none", v |-> <<>>]
JStr(s) == [t |-> "str", v |-> s]
\* An integer, held by its decimal digits.
JNum(digits) == [t |-> "int", v |-> digits]
JList(items) == [t |-> "list", v |-> items]
JDict(fields) == [t |-> "dict", v |-> fields]

\* str(x) of a JSON scalar.
PyStr(x) == IF x.t = "none" THEN <<"N", "o", "n", "e">> ELSE x.v

\* x == y of Python for JSON values: values of different types are unequal.
PyEq(x, y) == x.t = y.t /\ x.v = y.v

\* d.get(key, default)
DictGet(d, key, default) == IF key \in DOMAIN d.v THEN d.v[key] ELSE default

\* hashable: what set() accepts as an element.
Hashable(x) == x.t \notin {"list", "dict"}

\* len(set(items)), for hashable items: the number of pairwise different ones.
LenSet(items) ==
    Cardinality({i \in DOMAIN items : \A j \in 1..(i - 1) : ~PyEq(items[j], items[i])})

\* x in items
PyIn(x, items) == \E i \in DOMAIN items : PyEq(items[i], x)

----------------------------------------------------------------------------
(* utils.validate_quiz_json *)

\* What a call of the validator does: return (ok, err), or raise.
Verdict(ok, err) == [raised |-> FALSE, ok |-> ok, err |-> err]
Raises(exc) == [raised |-> TRUE, ok |-> FALSE, err |-> <<exc>>]

RequiredKeys == <<"title", "description", "questions">>

\* The first of the required keys that q lacks, 0 when it has them all.
FirstMissingKey(q) ==
    LET missing == {k \in DOMAIN RequiredKeys : RequiredKeys[k] \notin DOMAIN q.v}
    IN  IF missing = {} THEN 0 ELSE CHOOSE k \in missing : \A m \in missing : k <= m

\* CheckQuestion with the option count left unchecked and the options compared with
\* their own number: what `len(set(opts)) != len(opts)` alone would do.
CheckQuestionAnyCount(item, i) ==
    IF item.t # "dict" THEN Raises("AttributeError")
    ELSE LET qt == DictGet(item, "question_title", None)
             opts == DictGet(item, "question_options", None)
             ans == DictGet(item, "answer", None)
         IN  IF qt.t # "str" \/ Strip(qt.v) = <<>>
                 THEN Verdict(FALSE, <<"Q", i, ": question_title missing/invalid.">>)
             ELSE IF opts.t # "list"
                 THEN Verdict(FALSE, <<"Q", i, ": must have exactly 4 options.">>)
             ELSE IF \E k \in DOMAIN opts.v : ~Hashable(opts.v[k])
                 THEN Raises("TypeError")
             ELSE IF LenSet(opts.v) # Len(opts.v)
                 THEN Verdict(FALSE, <<"Q", i, ": options must be distinct.">>)
             ELSE IF ans.t # "str" \/ ~PyIn(ans, opts.v)
                 THEN Verdict(FALSE, <<"Q", i, ": answer must be one of the options.">>)
             ELSE Verdict(TRUE, <<>>)

\* The body of the loop over the questions, for the item at index i.
CheckQuestion(item, i) ==
    IF item.t # "dict" THEN Raises("AttributeError")
    ELSE LET qt == DictGet(item, "question_title", None)
             opts == DictGet(item, "question_options", None)
             ans == DictGet(item, "answer", None)
         IN  IF qt.t # "str" \/ Strip(qt.v) = <<>>
                 THEN Verdict(FALSE, <<"Q", i, ": question_title missing/invalid.">>)
             ELSE IF opts.t # "list" \/ Len(opts.v) # NumOptions
                 THEN Verdict(FALSE, <<"Q", i, ": must have exactly 4 options.">>)
             ELSE IF \E k \in DOMAIN opts.v : ~Hashable(opts.v[k])
                 THEN Raises("TypeError")
             ELSE IF LenSet(opts.v) # NumOptions
                 THEN Verdict(FALSE, <<"Q", i, ": options must be distinct.">>)
             ELSE IF ans.t # "str" \/ ~PyIn(ans, opts.v)
                 THEN Verdict(FALSE, <<"Q", i, ": answer must be one of the options.">>)
             ELSE Verdict(TRUE, <<>>)

\* for i, item in enumerate(questions, start=1): the first item that fails or
\* raises decides; (True, "") when none does.
RECURSIVE CheckQuestions(_, _)
CheckQuestions(questions, i) ==
    IF i > Len(questions) THEN Verdict(TRUE, <<>>)
    ELSE LET r == CheckQuestion(questions[i], i)
         IN  IF r.raised \/ ~r.ok THEN r ELSE CheckQuestions(questions, i + 1)

\* validate_quiz_json without the count of the questions.
validate_quiz_json_any_length(q) ==
    IF q.t # "dict" THEN Verdict(FALSE, <<"Quiz is not a JSON object.">>)
    ELSE IF FirstMissingKey(q) # 0
        THEN Verdict(FALSE, <<"Missing key: ", RequiredKeys[FirstMissingKey(q)]>>)
    ELSE IF q.v["description"].t # "str" \/ Len(q.v["description"].v) > MaxDescription
        THEN Verdict(FALSE, <<"description must be <= 500 characters.">>)
    ELSE IF q.v["questions"].t # "list"
        THEN Verdict(FALSE, <<"questions must contain exactly 10 questions.">>)
    ELSE CheckQuestions(q.v["questions"].v, 1)

validate_quiz_json(q) ==
    IF q.t # "dict" THEN Verdict(FALSE, <<"Quiz is not a JSON object.">>)
    ELSE IF FirstMissingKey(q) # 0
        THEN Verdict(FALSE, <<"Missing key: ", RequiredKeys[FirstMissingKey(q)]>>)
    ELSE IF q.v["description"].t # "str" \/ Len(q.v["description"].v) > MaxDescription
        THEN Verdict(FALSE, <<"description must be <= 500 characters.">>)
    ELSE IF q.v["questions"].t # "list" \/ Len(q.v["questions"].v) # NumQuestions
        THEN Verdict(FALSE, <<"questions must contain exactly 10 questions.">>)
    ELSE CheckQuestions(q.v["questions"].v, 1)

----------------------------------------------------------------------------
(* utils.extract_video_id *)

\* A URL is held as urlparse() splits it: [scheme, netloc, path, query], the
\* netloc and path as text, the query as its sequence of <<name, value>> pairs.

LowerChar(c) ==
    CASE c = "Y" -> "y" [] c = "O" -> "o" [] c = "U" -> "u" [] c = "T" -> "t"
      [] c = "B" -> "b" [] c = "E" -> "e" [] c = "C" -> "c" [] c = "M" -> "m"
      [] c = "W" -> "w" [] OTHER -> c

\* str.lower()
Lower(s) == [i \in DOMAIN s |-> LowerChar(s[i])]

YoutubeCom == <<"y", "o", "u", "t", "u", "b", "e", ".", "c", "o", "m">>
YoutuBe == <<"y", "o", "u", "t", "u", ".", "b", "e">>
Www == <<"w", "w", "w", ".">>

YOUTUBE_DOMAINS == {YoutubeCom, Www \o YoutubeCom, YoutuBe, Www \o YoutuBe}

RECURSIVE LStripSlash(_)
LStripSlash(s) == IF s # <<>> /\ Head(s) = "/" THEN LStripSlash(Tail(s)) ELSE s

RECURSIVE RStripSlash(_)
RStripSlash(s) ==
    IF s # <<>> /\ s[Len(s)] = "/" THEN RStripSlash(SubSeq(s, 1, Len(s) - 1)) ELSE s

\* s.strip("/")
StripSlash(s) == RStripSlash(LStripSlash(s))

\* The longest prefix of s without a "/": s.split("/")[0], and the group of [^/]+.
RECURSIVE FirstSegment(_)
FirstSegment(s) ==
    IF s = <<>> \/ Head(s) = "/" THEN <<>> ELSE <<Head(s)>> \o FirstSegment(Tail(s))

StartsWith(s, prefix) ==
    Len(s) >= Len(prefix) /\ SubSeq(s, 1, Len(prefix)) = prefix

\* re.match(r"^<prefix>([^/]+)", path): the group, or None when there is no match.
MatchSegment(prefix, path) ==
    IF StartsWith(path, prefix)
       /\ FirstSegment(SubSeq(path, Len(prefix) + 1, Len(path))) # <<>>
    THEN JStr(FirstSegment(SubSeq(path, Len(prefix) + 1, Len(path))))
    ELSE None

\* parse_qs(query).get(name, [None])[0]: parse_qs drops the blank values.
QueryGet(query, name) ==
    LET hits == {i \in DOMAIN query : query[i][1] = name /\ query[i][2] # <<>>}
    IN  IF hits = {} THEN None
        ELSE JStr(query[CHOOSE i \in hits : \A j \in hits : i <= j][2])

WatchPath == <<"/", "w", "a", "t", "c", "h">>
ShortsPrefix == <<"/", "s", "h", "o", "r", "t", "s", "/">>
EmbedPrefix == <<"/", "e", "m", "b", "e", "d", "/">>

\* The video id as a JSON string, or None.
extract_video_id(url) ==
    LET host == Lower(url.netloc)
    IN  IF host \notin YOUTUBE_DOMAINS THEN None
        ELSE IF host = YoutuBe
            THEN IF FirstSegment(StripSlash(url.path)) = <<>> THEN None
                 ELSE JStr(FirstSegment(StripSlash(url.path)))
        ELSE IF url.path = WatchPath THEN QueryGet(url.query, <<"v">>)
        ELSE IF MatchSegment(ShortsPrefix, url.path) # None
            THEN MatchSegment(ShortsPrefix, url.path)
        ELSE MatchSegment(EmbedPrefix, url.path)

\* A test that lets every value pass.
AlwaysTruthy(x) == TRUE

\* Truthiness of a str | None value: `if not video_id`, `if not transcript`.
Truthy(x) == x.t # "none" /\ x.v # <<>>

----------------------------------------------------------------------------
(* Inputs: request bodies, outcomes of the external services *)

NoUrl == [scheme |-> "", netloc |-> <<>>, path |-> <<>>, query |-> <<>>]

\* https://www.youtube.com/watch?v=X
UrlWatch ==
    [scheme |-> "https", netloc |-> Www \o YoutubeCom, path |-> WatchPath,
     query |-> << << <<"v">>, <<"X">> >> >>]
\* //youtu.be/X
UrlNoScheme ==
    [scheme |-> "", netloc |-> YoutuBe, path |-> <<"/", "X">>, query |-> <<>>]
\* https://vimeo.com/1
UrlVimeo ==
    [scheme |-> "https", netloc |-> <<"v", "i", "m", "e", "o", ".", "c", "o", "m">>,
     path |-> <<"/", "1">>, query |-> <<>>]

\* The bodies of POST /createQuiz/: {"url": ...}, or {} for "missing".
PostBodyNames == {"watch", "noscheme", "vimeo", "missing"}
PostBody(name) ==
    CASE name = "watch" -> [url |-> UrlWatch]
      [] name = "noscheme" -> [url |-> UrlNoScheme]
      [] name = "vimeo" -> [url |-> UrlVimeo]
      [] OTHER -> [nothing |-> TRUE]

\* serializers.URLField(): Django's URLValidator wants a scheme among
\* http, https, ftp, ftps, followed by a host.
UrlFieldValid(url) ==
    url.scheme \in {"http", "https", "ftp", "ftps"} /\ url.netloc # <<>>

\* CreateQuestionSerializer(data=body).is_valid()
CreateQuestionSerializerValid(body) ==
    "url" \in DOMAIN body /\ UrlFieldValid(body.url)

Opt(c) == JStr(<<c>>)
GoodOptions == JList(<<Opt("A"), Opt("B"), Opt("C"), Opt("D")>>)
MakeQuestion(title, options, answer) ==
    JDict([question_title |-> title, question_options |-> options, answer |-> answer])
GoodQuestion == MakeQuestion(JStr(<<"Q">>), GoodOptions, Opt("A"))

\* The questions the generator may put in place of a good one.
QuestionNames ==
    {"good", "padded_answer", "padded_title", "int_options", "blank_title",
     "three_options", "five_options", "duplicate_option", "foreign_answer",
     "int_answer", "not_a_dict", "nested_option"}
QuestionNamed(name) ==
    CASE name = "good" -> GoodQuestion
      [] name = "padded_answer" ->
            MakeQuestion(JStr(<<"Q", " ">>),
                         JList(<<JStr(<<"A", " ">>), Opt("B"), Opt("C"), Opt("D")>>),
                         JStr(<<"A", " ">>))
      [] name = "padded_title" -> MakeQuestion(JStr(<<" ", "Q">>), GoodOptions, Opt("B"))
      [] name = "int_options" ->
            MakeQuestion(JStr(<<"Q">>),
                         JList(<<JNum(<<"1">>), JNum(<<"2">>), Opt("1"), Opt("2")>>),
                         Opt("1"))
      [] name = "blank_title" -> MakeQuestion(JStr(<<" ">>), GoodOptions, Opt("A"))
      [] name = "three_options" ->
            MakeQuestion(JStr(<<"Q">>), JList(<<Opt("A"), Opt("B"), Opt("C")>>), Opt("A"))
      [] name = "five_options" ->
            MakeQuestion(JStr(<<"Q">>),
                         JList(<<Opt("A"), Opt("B"), Opt("C"), Opt("D"), Opt("E")>>),
                         Opt("A"))
      [] name = "duplicate_option" ->
            MakeQuestion(JStr(<<"Q">>), JList(<<Opt("A"), Opt("B"), Opt("C"), Opt("A")>>),
                         Opt("A"))
      [] name = "foreign_answer" -> MakeQuestion(JStr(<<"Q">>), GoodOptions, Opt("E"))
      [] name = "int_answer" ->
            MakeQuestion(JStr(<<"Q">>),
                         JList(<<JNum(<<"1">>), JNum(<<"2">>), Opt("1"), Opt("2")>>),
                         JNum(<<"1">>))
      [] name = "not_a_dict" -> JStr(<<"Q">>)
      [] OTHER ->
            MakeQuestion(JStr(<<"Q">>),
                         JList(<<Opt("A"), Opt("B"), Opt("C"), JList(<<Opt("D")>>)>>),
                         Opt("A"))

\* n questions, good ones but for the one at position k.
Questions(n, k, name) ==
    JList([i \in 1..n |-> IF i = k THEN QuestionNamed(name) ELSE GoodQuestion])

LongDescription == JStr([i \in 1..(MaxDescription + 1) |-> "x"])

MakeQuiz(title, description, questions) ==
    JDict([title |-> title, description |-> description, questions |-> questions])

\* The values json.loads may hand back from the generator's response, by name:
\* <<kind, k>>, k the position of the question that differs (0: none does).
PayloadNames ==
    {<<name, 0>> : name \in {"good", "null_title", "padded_text", "nine", "eleven",
                             "long_description", "no_title", "a_list"}}
    \cup {<<name, k>> : name \in QuestionNames \ {"good"}, k \in {1, NumQuestions}}
Payload(p) ==
    CASE p[1] = "good" /\ p[2] = 0 ->
            MakeQuiz(JStr(<<"T">>), JStr(<<"D">>), Questions(NumQuestions, 0, "good"))
      [] p[1] = "null_title" ->
            MakeQuiz(None, JStr(<<"D">>), Questions(NumQuestions, 0, "good"))
      [] p[1] = "padded_text" ->
            MakeQuiz(JStr(<<" ", "T">>), JStr(<<"D", "\n">>),
                     Questions(NumQuestions, 0, "good"))
      [] p[1] = "nine" ->
            MakeQuiz(JStr(<<"T">>), JStr(<<"D">>), Questions(NumQuestions - 1, 0, "good"))
      [] p[1] = "eleven" ->
            MakeQuiz(JStr(<<"T">>), JStr(<<"D">>), Questions(NumQuestions + 1, 0, "good"))
      [] p[1] = "long_description" ->
            MakeQuiz(JStr(<<"T">>), LongDescription, Questions(NumQuestions, 0, "good"))
      [] p[1] = "no_title" ->
            JDict([description |-> JStr(<<"D">>),
                   questions |-> Questions(NumQuestions, 0, "good")])
      [] p[1] = "a_list" -> JList(<<GoodQuestion>>)
      [] OTHER ->
            MakeQuiz(JStr(<<"T">>), JStr(<<"D">>), Questions(NumQuestions, p[2], p[1]))

\* The payloads the generation step of a request draws from.
GeneratedPayloads ==
    {<<"padded_answer", NumQuestions>>, <<"nine", 0>>, <<"three_options", 1>>,
     <<"not_a_dict", 1>>}

\* The texts the speech model may return; "none" stands for a falsy result.
TranscriptNames == {"text", "blank", "none"}
TranscriptText(name) ==
    CASE name = "text" -> <<" ", "h", "i", "\n">>
      [] name = "blank" -> <<" ", "\n">>
      [] OTHER -> <<>>

\* The bodies of PATCH /quizzes/<pk>/.
PatchBodyNames == {"title_description", "video_url", "read_only", "blank_title"}
PatchBody(name) ==
    CASE name = "title_description" ->
            [title |-> JStr(<<" ", "T", "2">>), description |-> JStr(<<"D", "2">>)]
      [] name = "video_url" -> [video_url |-> UrlVimeo]
      [] name = "read_only" -> [id |-> 9, questions |-> JList(<<>>), user |-> "bob"]
      [] OTHER -> [title |-> JStr(<<" ">>)]

----------------------------------------------------------------------------
(* State *)

VARIABLES
    th,                \* per worker thread: its request and the handler's locals
    last,              \* the request this step answered, with its response
    Quiz,              \* the rows of table Quiz
    Question,          \* the rows of table Question
    quiz_seq,          \* the last id the Quiz id sequence gave out
    dirs,              \* the temporary directories that exist, each with its creator
    files,             \* the files in them
    _WHISPER_MODEL,    \* utils._WHISPER_MODEL: 0 for None, else the model instance
    models,            \* the model instances whisper.load_model has constructed
    requests,          \* how many requests the server has accepted
    probe              \* a direct call of one function of utils or services: the
                       \* function, its argument and, once it returned, its result

vars ==
    <<th, last, Quiz, Question, quiz_seq, dirs, files, _WHISPER_MODEL, models,
      requests, probe>>

\* The variables of the server, which a direct call of a pure function leaves alone.
server_vars ==
    <<th, last, Quiz, Question, quiz_seq, dirs, files, _WHISPER_MODEL, models, requests>>

unchanged_db == UNCHANGED <<Quiz, Question, quiz_seq>>
unchanged_tmp == UNCHANGED <<dirs, files>>
unchanged_model == UNCHANGED <<_WHISPER_MODEL, models>>

DirNames == {"tmp1", "tmp2"}

StageOrder ==
    <<"Resolver", "Acquirer", "Transcriber", "Generator", "Validator", "Persistence">>

\* A thread that handles no request.
Idle ==
    [pc |-> "idle", op |-> "none", user |-> "", pk |-> 0, body |-> "",
     video_url |-> NoUrl, video_id |-> None, tmp_dir |-> "", audio_path |-> <<>>,
     transcript |-> None, model |-> 0, exc |-> "", quiz_json |-> None, quiz |-> 0,
     i |-> 0,
     trace |-> <<>>,    \* the stages the request invoked, each with its outcome
     wrote |-> FALSE]   \* whether a step of the request changed the committed rows

\* The rows a committed read sees.
Committed == [Quiz |-> {q \in Quiz : q.tx = ""}, Question |-> {q \in Question : q.tx = ""}]

\* The step answered no request.
NoResponse ==
    [op |-> "none", user |-> "", pk |-> 0, body |-> "", status |-> 0, data |-> <<>>,
     quiz |-> 0, trace |-> <<>>, wrote |-> FALSE]

\* How the trace records what a stage returned: a stage that returned no text
\* (no video id, an empty transcript) did not succeed.
Returned(x) == IF x.t = "str" /\ x.v # <<>> THEN "ok" ELSE IF x.t = "str" THEN "empty" ELSE "failed"

Invoke(r, stage) == [r EXCEPT !.trace = Append(@, [stage |-> stage, out |-> "running"])]
Outcome(r, out) == [r EXCEPT !.trace[Len(r.trace)].out = out]

\* No function is called directly.
NoProbe == [fn |-> "none", arg |-> <<>>, done |-> FALSE, ret |-> <<>>]

\* A step of thread t that leaves it as r, the rows of the next state being known.
Step(t, r) ==
    /\ th' = [th EXCEPT ![t] = [r EXCEPT !.wrote = @ \/ Committed' # Committed]]
    /\ last' = NoResponse
    /\ UNCHANGED probe

\* return Response(data, status=status), the last step of a request r of thread t:
\* the handler's locals go out of scope and the thread is free again.
Return(t, r, status, data) ==
    /\ th' = [th EXCEPT ![t] = Idle]
    /\ last' = [op |-> r.op, user |-> r.user, pk |-> r.pk, body |-> r.body,
                status |-> status, data |-> data, quiz |-> r.quiz, trace |-> r.trace,
                wrote |-> r.wrote \/ Committed' # Committed]
    /\ UNCHANGED probe

CanAccept(t) == th[t].pc = "idle" /\ requests < MaxRequests

\* The server process after its start, on an empty database.
InitServer ==
    /\ th = [t \in Threads |-> Idle]
    /\ last = NoResponse
    /\ Quiz = {}
    /\ Question = {}
    /\ quiz_seq = 0
    /\ dirs = {}
    /\ files = {}
    /\ _WHISPER_MODEL = 0
    /\ models = {}
    /\ requests = 0

Init == InitServer /\ probe = NoProbe

----------------------------------------------------------------------------
(* views.CreateQuizView.post *)

\* Lines 69-75: validate the body, resolve the video id; `user` posts body b.
PostWith(t, user, b) ==
    /\ CanAccept(t)
    /\ requests' = requests + 1
    /\ unchanged_db /\ unchanged_tmp /\ unchanged_model
    /\ LET body == PostBody(b)
           req == [Idle EXCEPT !.op = "post", !.user = user, !.body = b]
       IN  IF ~CreateQuestionSerializerValid(body)
           THEN Return(t, req, 400, [url |-> <<"Enter a valid URL.">>])
           ELSE LET video_id == extract_video_id(body.url)
                    r == [Outcome(Invoke(req, "Resolver"), Returned(video_id)) EXCEPT
                              !.video_url = body.url, !.video_id = video_id]
                IN  IF ~Truthy(video_id)
                    THEN Return(t, r, 400, [error |-> <<"Invalid YouTube URL.">>])
                    ELSE Step(t, [r EXCEPT !.pc = "mkdtemp"])

Post(t) == \E user \in Posters, b \in PostBodyNames : PostWith(t, user, b)

\* The names tempfile.mkdtemp may pick: it retries until the name is new.
FreeDirNames == DirNames \ {d.name : d \in dirs}

\* Line 78: with tempfile.TemporaryDirectory() as tmp_dir
EnterTmp(t) ==
    /\ th[t].pc = "mkdtemp"
    /\ UNCHANGED <<files, requests>> /\ unchanged_db /\ unchanged_model
    /\ \E name \in FreeDirNames :
        /\ dirs' = dirs \cup {[name |-> name, owner |-> t]}
        /\ Step(t, [th[t] EXCEPT !.tmp_dir = name, !.pc = "download"])

\* What the download does: it leaves audio.mp3, or leaves something else, or fails.
DownloadOutcomes == {"mp3", "no_mp3", "DownloadError"}

\* Line 79 (services.py line 80), utils.download_audio, the download doing o.
DownloadWith(t, o) ==
    /\ th[t].pc = "download"
    /\ UNCHANGED <<dirs, requests>> /\ unchanged_db /\ unchanged_model
    /\ LET r == Invoke(th[t], "Acquirer")
           file(name) == [dir |-> th[t].tmp_dir, name |-> name]
       IN  IF o = "mp3"
           THEN /\ files' = files \cup {file("audio.mp3")}
                /\ Step(t, [Outcome(r, "ok") EXCEPT
                               !.audio_path = <<th[t].tmp_dir, "audio.mp3">>,
                               !.pc = "transcribe"])
           ELSE IF o = "no_mp3"
           THEN /\ files' = files \cup {file("audio.webm")}
                /\ Step(t, [Outcome(r, "failed") EXCEPT
                               !.exc = "Audio extraction failed.", !.pc = "exit_tmp"])
           ELSE /\ files' = files \cup {file("audio.part")}
                /\ Step(t, [Outcome(r, "failed") EXCEPT
                               !.exc = "Failed to download audio.", !.pc = "exit_tmp"])

Download(t) == \E o \in DownloadOutcomes : DownloadWith(t, o)

\* Line 80, utils.transcribe_audio line 119: if _WHISPER_MODEL is None
TranscribeAudio(t) ==
    /\ th[t].pc = "transcribe"
    /\ UNCHANGED requests /\ unchanged_db /\ unchanged_tmp /\ unchanged_model
    /\ Step(t, [Invoke(th[t], "Transcriber") EXCEPT
                   !.pc = IF _WHISPER_MODEL = 0 THEN "load_model" ELSE "run_model"])

\* utils.transcribe_audio line 120: _WHISPER_MODEL = whisper.load_model(...), which
\* returns the model (loaded) or raises.
LoadModelWith(t, loaded) ==
    /\ th[t].pc = "load_model"
    /\ UNCHANGED requests /\ unchanged_db /\ unchanged_tmp
    /\ IF loaded
       THEN /\ models' = models \cup {Cardinality(models) + 1}
            /\ _WHISPER_MODEL' = Cardinality(models) + 1
            /\ Step(t, [th[t] EXCEPT !.pc = "run_model"])
       ELSE /\ UNCHANGED <<_WHISPER_MODEL, models>>
            /\ Step(t, [Outcome(th[t], "failed") EXCEPT
                           !.exc = "load_model failed", !.pc = "exit_tmp"])

LoadModel(t) == \E loaded \in BOOLEAN : LoadModelWith(t, loaded)

\* utils.transcribe_audio lines 122-123: the model read again, run and its text
\* stripped; the model returns the text named o or raises.
RunModelWith(t, o) ==
    /\ th[t].pc = "run_model"
    /\ UNCHANGED requests /\ unchanged_db /\ unchanged_tmp /\ unchanged_model
    /\ LET r == [th[t] EXCEPT !.model = _WHISPER_MODEL, !.pc = "exit_tmp"]
           text == JStr(Strip(TranscriptText(o)))
       IN  IF o = "raise"
           THEN Step(t, [Outcome(r, "failed") EXCEPT !.exc = "transcribe failed"])
           ELSE Step(t, [Outcome(r, Returned(text)) EXCEPT
                            !.transcript = text])

RunModel(t) == \E o \in TranscriptNames \cup {"raise"} : RunModelWith(t, o)

\* A cleanup that runs at the normal end of the block only.
CleanupDirsNoFinally(t) ==
    IF th[t].exc # "" THEN dirs ELSE {d \in dirs : d.name # th[t].tmp_dir}

\* What TemporaryDirectory.__exit__ leaves of the directories and the files.
CleanupDirs(t) == {d \in dirs : d.name # th[t].tmp_dir}
CleanupFiles(t) == {f \in files : f.dir # th[t].tmp_dir}

\* The end of the with block (normal or by an exception), then lines 82-83 and 109-110.
ExitTmp(t) ==
    /\ th[t].op = "post" /\ th[t].pc = "exit_tmp"
    /\ UNCHANGED requests /\ unchanged_db /\ unchanged_model
    /\ dirs' = CleanupDirs(t)
    /\ files' = CleanupFiles(t)
    /\ IF th[t].exc # ""
       THEN Return(t, th[t], 500, [error |-> <<th[t].exc>>])
       ELSE IF ~Truthy(th[t].transcript)
       THEN Return(t, th[t], 500, [error |-> <<"Transcription failed.">>])
       ELSE Step(t, [th[t] EXCEPT !.pc = "generate"])

\* The response of the AI service that is not JSON.
NotJson == <<"not_json", 0>>

\* Lines 85-86, utils.generate_quiz_with_gemini: the parsed response p, or an
\* exception.
GenerateWith(t, p) ==
    /\ th[t].op = "post" /\ th[t].pc = "generate"
    /\ UNCHANGED requests /\ unchanged_db /\ unchanged_tmp /\ unchanged_model
    /\ LET r == Invoke(th[t], "Generator")
       IN  IF p = NotJson
           THEN Return(t, Outcome(r, "failed"), 500,
                       [error |-> <<"Generated content is not valid JSON.">>])
           ELSE Step(t, [Outcome(r, "ok") EXCEPT !.quiz_json = Payload(p), !.pc = "validate"])

Generate(t) == \E p \in GeneratedPayloads \cup {NotJson} : GenerateWith(t, p)

\* Lines 88-90
Validate(t) ==
    /\ th[t].op = "post" /\ th[t].pc = "validate"
    /\ UNCHANGED requests /\ unchanged_db /\ unchanged_tmp /\ unchanged_model
    /\ LET r == Invoke(th[t], "Validator")
           v == validate_quiz_json(th[t].quiz_json)
       IN  IF v.raised
           THEN Return(t, Outcome(r, "failed"), 500, [error |-> v.err])
           ELSE IF ~v.ok
           THEN Return(t, Outcome(r, "failed"), 500,
                               [error |-> <<"Generated quiz is invalid: ">> \o v.err])
           ELSE Step(t, [Outcome(r, "ok") EXCEPT !.pc = "create_quiz"])

----------------------------------------------------------------------------
(* The transaction of lines 92-106 *)

\* Without the atomic block every insert is committed at once.
Autocommit(t) == ""

\* with transaction.atomic(): the rows written inside belong to the thread's open
\* transaction, and no other connection sees them before the commit.
AtomicTx(t) == t

OwnRows(rows, t) == {q \in rows : q.tx = t}

\* An exception that is caught without a rollback.
RollbackNothing(rows, t) == rows

\* What a rollback leaves of a table: the open transaction's rows are dropped.
Rollback(rows, t) == rows \ OwnRows(rows, t)

\* What the commit leaves of a table: the open transaction's rows become visible.
CommitRows(rows, t) ==
    (rows \ OwnRows(rows, t)) \cup {[q EXCEPT !.tx = ""] : q \in OwnRows(rows, t)}

\* str(value).strip(), the coercion of the text fields on write.
Coerce(value) == Strip(PyStr(value))

\* for q in quiz_json.get("questions", [])
QuestionsOf(quiz_json) == DictGet(quiz_json, "questions", JList(<<>>)).v

\* An exception inside the atomic block: the rollback, then lines 109-110.
Abort(t, r) ==
    /\ Quiz' = Rollback(Quiz, t)
    /\ Question' = Rollback(Question, t)
    /\ Return(t, Outcome(r, "failed"), 500, [error |-> <<"database error">>])

\* Lines 93-98: Quiz.objects.create(...), the insert done or failing.
CreateQuizWith(t, inserted) ==
    /\ th[t].op = "post" /\ th[t].pc = "create_quiz"
    /\ UNCHANGED requests /\ unchanged_tmp /\ unchanged_model
    /\ LET r == Invoke(th[t], "Persistence")
           id == quiz_seq + 1
           row == [id |-> id, user |-> r.user,
                   title |-> Coerce(DictGet(r.quiz_json, "title", JStr(<<>>))),
                   description |-> Coerce(DictGet(r.quiz_json, "description", JStr(<<>>))),
                   video_url |-> r.video_url, tx |-> AtomicTx(t)]
       IN  IF inserted
           THEN /\ quiz_seq' = id
                /\ Quiz' = Quiz \cup {row}
                /\ UNCHANGED Question
                /\ Step(t, [r EXCEPT !.quiz = id, !.i = 1,
                               !.pc = IF QuestionsOf(r.quiz_json) = <<>>
                                      THEN "commit" ELSE "create_question"])
           ELSE /\ UNCHANGED quiz_seq
                /\ Abort(t, r)

CreateQuiz(t) == \E inserted \in BOOLEAN : CreateQuizWith(t, inserted)

\* Lines 100-106: one round of the loop, Question.objects.create(...), the insert
\* done or failing.
CreateQuestionWith(t, inserted) ==
    /\ th[t].op = "post" /\ th[t].pc = "create_question"
    /\ UNCHANGED <<requests, quiz_seq>> /\ unchanged_tmp /\ unchanged_model
    /\ LET r == th[t]
           q == QuestionsOf(r.quiz_json)[r.i]
           row == [quiz |-> r.quiz, ord |-> r.i,
                   question_title |-> Coerce(DictGet(q, "question_title", JStr(<<>>))),
                   question_options |-> DictGet(q, "question_options", JList(<<>>)),
                   answer |-> Coerce(DictGet(q, "answer", JStr(<<>>))),
                   tx |-> AtomicTx(t)]
       IN  IF inserted
           THEN /\ Question' = Question \cup {row}
                /\ UNCHANGED Quiz
                /\ Step(t, [r EXCEPT !.i = @ + 1,
                               !.pc = IF r.i = Len(QuestionsOf(r.quiz_json))
                                      THEN "commit" ELSE "create_question"])
           ELSE Abort(t, r)

CreateQuestion(t) == \E inserted \in BOOLEAN : CreateQuestionWith(t, inserted)

\* The end of the atomic block: the commit, done or failing.
CommitWith(t, committed) ==
    /\ th[t].op = "post" /\ th[t].pc = "commit"
    /\ UNCHANGED <<requests, quiz_seq>> /\ unchanged_tmp /\ unchanged_model
    /\ IF committed
       THEN /\ Quiz' = CommitRows(Quiz, t)
            /\ Question' = CommitRows(Question, t)
            /\ Step(t, [Outcome(th[t], "ok") EXCEPT !.pc = "respond"])
       ELSE Abort(t, th[t])

Commit(t) == \E committed \in BOOLEAN : CommitWith(t, committed)

\* QuestionSerializer(many=True) over quiz.questions: the committed questions of the
\* quiz, in the order of their insertion.
SerializeQuestions(id) ==
    LET rows == {q \in Committed.Question : q.quiz = id}
    IN  [k \in 1..Cardinality(rows) |->
            LET row == CHOOSE q \in rows : Cardinality({x \in rows : x.ord < q.ord}) = k - 1
            IN  [question_title |-> row.question_title,
                 question_options |-> row.question_options, answer |-> row.answer]]

\* QuizSerializer(quiz).data
SerializeQuiz(quiz) ==
    [id |-> quiz.id, title |-> quiz.title, description |-> quiz.description,
     video_url |-> quiz.video_url, questions |-> SerializeQuestions(quiz.id)]

\* Line 108: the response from the instance the handler created.
Respond(t) ==
    /\ th[t].op = "post" /\ th[t].pc = "respond"
    /\ UNCHANGED requests /\ unchanged_db /\ unchanged_tmp /\ unchanged_model
    /\ LET r == th[t]
           quiz == [id |-> r.quiz,
                    title |-> Coerce(DictGet(r.quiz_json, "title", JStr(<<>>))),
                    description |-> Coerce(DictGet(r.quiz_json, "description", JStr(<<>>))),
                    video_url |-> r.video_url]
       IN  Return(t, r, 201, SerializeQuiz(quiz))

----------------------------------------------------------------------------
(* views.CreateQuizView.get and views.GetQuizByIdView *)

\* The ids a request may name.
QuizIds == 1..(quiz_seq + 1)

\* Quiz.objects.get(pk=pk): the set of the matching committed rows.
QuizzesWithPk(pk) == {q \in Committed.Quiz : q.id = pk}

\* A check that lets every user pass.
NotOwnerNever(user, quiz) == FALSE

\* request.user != quiz.user
NotOwner(user, quiz) == user # quiz.user

\* CreateQuizView.get: the caller's quizzes.
ListQuizzes(t) ==
    /\ CanAccept(t)
    /\ requests' = requests + 1
    /\ unchanged_db /\ unchanged_tmp /\ unchanged_model
    /\ \E user \in Users :
        LET req == [Idle EXCEPT !.op = "list", !.user = user]
            mine == {q \in Committed.Quiz : q.user = user}
        IN  Return(t, req, 200, {SerializeQuiz(q) : q \in mine})

\* GetQuizByIdView.get
GetQuiz(t) ==
    /\ CanAccept(t)
    /\ requests' = requests + 1
    /\ unchanged_db /\ unchanged_tmp /\ unchanged_model
    /\ \E user \in Users, pk \in QuizIds :
        LET req == [Idle EXCEPT !.op = "get", !.user = user, !.pk = pk]
        IN  IF QuizzesWithPk(pk) = {}
            THEN Return(t, req, 404, [error |-> <<"Quiz not found.">>])
            ELSE LET quiz == CHOOSE q \in QuizzesWithPk(pk) : TRUE
                 IN  IF NotOwner(user, quiz)
                     THEN Return(t, req, 403,
                                  [error |-> <<"You have not Permission to enter this Quiz">>])
                     ELSE Return(t, req, 200, SerializeQuiz(quiz))

\* The fields QuizSerializer writes: those of Meta.fields that are not read-only
\* (id, created_at and updated_at are not editable, questions is read_only).
QuizSerializerWritable == {"title", "description", "video_url"}

\* A CharField of the serializer: the text, trimmed; blank is refused.
CharFieldValid(value) == value.t \in {"str", "int"} /\ Strip(PyStr(value)) # <<>>

\* QuizSerializer(quiz, data=body, partial=True).is_valid()
QuizSerializerValid(body) ==
    /\ "title" \in DOMAIN body => CharFieldValid(body.title)
    /\ "description" \in DOMAIN body => CharFieldValid(body.description)
    /\ "video_url" \in DOMAIN body => UrlFieldValid(body.video_url)

\* serializer.save(): the validated writable fields are set on the instance.
QuizSerializerSave(quiz, body) ==
    LET has(f) == f \in DOMAIN body /\ f \in QuizSerializerWritable
    IN  [quiz EXCEPT
            !.title = IF has("title") THEN Strip(PyStr(body.title)) ELSE @,
            !.description = IF has("description") THEN Strip(PyStr(body.description)) ELSE @,
            !.video_url = IF has("video_url") THEN body.video_url ELSE @]

\* GetQuizByIdView.patch
PatchQuiz(t) ==
    /\ CanAccept(t)
    /\ requests' = requests + 1
    /\ UNCHANGED <<Question, quiz_seq>> /\ unchanged_tmp /\ unchanged_model
    /\ \E user \in Users, pk \in QuizIds, b \in PatchBodyNames :
        LET req == [Idle EXCEPT !.op = "patch", !.user = user, !.pk = pk, !.body = b]
            body == PatchBody(b)
        IN  IF QuizzesWithPk(pk) = {}
            THEN /\ UNCHANGED Quiz
                 /\ Return(t, req, 404, [error |-> <<"Quiz not found.">>])
            ELSE LET quiz == CHOOSE q \in QuizzesWithPk(pk) : TRUE
                 IN  IF NotOwner(user, quiz)
                     THEN /\ UNCHANGED Quiz
                          /\ Return(t, req, 403,
                                  [error |-> <<"You have not Permission to modify this Quiz">>])
                     ELSE IF ~QuizSerializerValid(body)
                     THEN /\ UNCHANGED Quiz
                          /\ Return(t, req, 400, [error |-> <<"This field may not be blank.">>])
                     ELSE /\ Quiz' = (Quiz \ {quiz}) \cup {QuizSerializerSave(quiz, body)}
                          /\ Return(t, req, 200,
                                            SerializeQuiz(QuizSerializerSave(quiz, body)))

\* A foreign key that lets the questions stay behind.
CascadeNothing(quiz) == {}

\* on_delete=models.CASCADE of Question.quiz: the questions that go with a quiz.
CascadeOf(quiz) == {q \in Question : q.quiz = quiz.id}

\* GetQuizByIdView.delete
DeleteQuiz(t) ==
    /\ CanAccept(t)
    /\ requests' = requests + 1
    /\ UNCHANGED quiz_seq /\ unchanged_tmp /\ unchanged_model
    /\ \E user \in Users, pk \in QuizIds :
        LET req == [Idle EXCEPT !.op = "delete", !.user = user, !.pk = pk]
        IN  IF QuizzesWithPk(pk) = {}
            THEN /\ UNCHANGED <<Quiz, Question>>
                 /\ Return(t, req, 404, [error |-> <<"Quiz not found.">>])
            ELSE LET quiz == CHOOSE q \in QuizzesWithPk(pk) : TRUE
                 IN  IF NotOwner(user, quiz)
                     THEN /\ UNCHANGED <<Quiz, Question>>
                          /\ Return(t, req, 403,
                                  [error |-> <<"You have not Permission to delete this Quiz">>])
                     ELSE /\ Quiz' = Quiz \ {quiz}
                          /\ Question' = Question \ CascadeOf(quiz)
                          /\ Return(t, req, 204, <<>>)

----------------------------------------------------------------------------
(* services.QuizService.create_quiz_from_youtube *)

\* The call QuizService.create_quiz_from_youtube(user, video_url) is made on a
\* thread of the server; its result is held in probe.ret.
ServiceCalled == probe.fn = "create_quiz_from_youtube"

ServiceResult(r, raised, exc, message) ==
    [raised |-> raised, exc |-> exc, message |-> message, quiz |-> r.quiz,
     trace |-> r.trace]

\* raise exc(message): the call of thread t, whose locals are r, ends.
Raise(t, r, exc, message) ==
    /\ th' = [th EXCEPT ![t] = Idle]
    /\ last' = NoResponse
    /\ probe' = [probe EXCEPT !.done = TRUE, !.ret = ServiceResult(r, TRUE, exc, message)]

\* Lines 74-76: resolve the video id.
ServiceCall(t, user, url) ==
    /\ ServiceCalled /\ ~probe.done /\ th[t].pc = "idle"
    /\ UNCHANGED requests /\ unchanged_db /\ unchanged_tmp /\ unchanged_model
    /\ LET video_id == extract_video_id(url)
           call == [Idle EXCEPT !.op = "service", !.user = user]
           r == [Outcome(Invoke(call, "Resolver"), Returned(video_id)) EXCEPT
                     !.video_url = url, !.video_id = video_id]
       IN  IF ~Truthy(video_id)
           THEN Raise(t, r, "ValueError", <<"Invalid YouTube URL.">>)
           ELSE Step(t, [r EXCEPT !.pc = "mkdtemp"])

\* The end of the with block of lines 79-81 (normal or by an exception, which goes
\* on to the caller), then lines 83-84.
ServiceExitTmp(t) ==
    /\ th[t].op = "service" /\ th[t].pc = "exit_tmp"
    /\ UNCHANGED requests /\ unchanged_db /\ unchanged_model
    /\ dirs' = CleanupDirs(t)
    /\ files' = CleanupFiles(t)
    /\ IF th[t].exc # ""
       THEN Raise(t, th[t], "Exception", <<th[t].exc>>)
       ELSE IF ~Truthy(th[t].transcript)
       THEN Raise(t, th[t], "RuntimeError", <<"Transcription failed.">>)
       ELSE Step(t, [th[t] EXCEPT !.pc = "generate"])

\* Lines 87-88, utils.generate_quiz_with_gemini: the parsed response p, or an
\* exception.
ServiceGenerate(t, p) ==
    /\ th[t].op = "service" /\ th[t].pc = "generate"
    /\ UNCHANGED requests /\ unchanged_db /\ unchanged_tmp /\ unchanged_model
    /\ LET r == Invoke(th[t], "Generator")
       IN  IF p = NotJson
           THEN Raise(t, Outcome(r, "failed"), "Exception",
                      <<"Generated content is not valid JSON.">>)
           ELSE Step(t, [Outcome(r, "ok") EXCEPT !.quiz_json = Payload(p), !.pc = "validate"])

\* Lines 91-93
ServiceValidate(t) ==
    /\ th[t].op = "service" /\ th[t].pc = "validate"
    /\ UNCHANGED requests /\ unchanged_db /\ unchanged_tmp /\ unchanged_model
    /\ LET r == Invoke(th[t], "Validator")
           v == validate_quiz_json(th[t].quiz_json)
       IN  IF v.raised
           THEN Raise(t, Outcome(r, "failed"), "Exception", v.err)
           ELSE IF ~v.ok
           THEN Raise(t, Outcome(r, "failed"), "ValueError",
                      <<"Generated quiz is invalid: ">> \o v.err)
           ELSE Step(t, [Outcome(r, "ok") EXCEPT !.pc = "create_quiz"])

\* str(value).strip() of _save_quiz_to_database, lines 114-115 and 122-124.
ServiceCoerce(value) == Strip(PyStr(value))

\* An exception inside the atomic block of line 111: the rollback, and the
\* exception goes on to the caller.
ServiceAbort(t, r) ==
    /\ Quiz' = Rollback(Quiz, t)
    /\ Question' = Rollback(Question, t)
    /\ Raise(t, Outcome(r, "failed"), "Exception", <<"database error">>)

\* Lines 112-117: Quiz.objects.create(...), the insert done or failing.
ServiceCreateQuiz(t, inserted) ==
    /\ th[t].op = "service" /\ th[t].pc = "create_quiz"
    /\ UNCHANGED requests /\ unchanged_tmp /\ unchanged_model
    /\ LET r == Invoke(th[t], "Persistence")
           id == quiz_seq + 1
           row == [id |-> id, user |-> r.user,
                   title |-> ServiceCoerce(DictGet(r.quiz_json, "title", JStr(<<>>))),
                   description |->
                       ServiceCoerce(DictGet(r.quiz_json, "description", JStr(<<>>))),
                   video_url |-> r.video_url, tx |-> AtomicTx(t)]
       IN  IF inserted
           THEN /\ quiz_seq' = id
                /\ Quiz' = Quiz \cup {row}
                /\ UNCHANGED Question
                /\ Step(t, [r EXCEPT !.quiz = id, !.i = 1,
                               !.pc = IF QuestionsOf(r.quiz_json) = <<>>
                                      THEN "commit" ELSE "create_question"])
           ELSE /\ UNCHANGED quiz_seq
                /\ ServiceAbort(t, r)

\* Lines 119-125: one round of the loop, Question.objects.create(...), the insert
\* done or failing.
ServiceCreateQuestion(t, inserted) ==
    /\ th[t].op = "service" /\ th[t].pc = "create_question"
    /\ UNCHANGED <<requests, quiz_seq>> /\ unchanged_tmp /\ unchanged_model
    /\ LET r == th[t]
           q == QuestionsOf(r.quiz_json)[r.i]
           row == [quiz |-> r.quiz, ord |-> r.i,
                   question_title |->
                       ServiceCoerce(DictGet(q, "question_title", JStr(<<>>))),
                   question_options |-> DictGet(q, "question_options", JList(<<>>)),
                   answer |-> ServiceCoerce(DictGet(q, "answer", JStr(<<>>))),
                   tx |-> AtomicTx(t)]
       IN  IF inserted
           THEN /\ Question' = Question \cup {row}
                /\ UNCHANGED Quiz
                /\ Step(t, [r EXCEPT !.i = @ + 1,
                               !.pc = IF r.i = Len(QuestionsOf(r.quiz_json))
                                      THEN "commit" ELSE "create_question"])
           ELSE ServiceAbort(t, r)

\* The end of the atomic block: the commit, done or failing.
ServiceCommit(t, committed) ==
    /\ th[t].op = "service" /\ th[t].pc = "commit"
    /\ UNCHANGED <<requests, quiz_seq>> /\ unchanged_tmp /\ unchanged_model
    /\ IF committed
       THEN /\ Quiz' = CommitRows(Quiz, t)
            /\ Question' = CommitRows(Question, t)
            /\ Step(t, [Outcome(th[t], "ok") EXCEPT !.pc = "respond"])
       ELSE ServiceAbort(t, th[t])

\* Lines 127 and 96: return quiz
ServiceReturn(t) ==
    /\ th[t].op = "service" /\ th[t].pc = "respond"
    /\ UNCHANGED requests /\ unchanged_db /\ unchanged_tmp /\ unchanged_model
    /\ th' = [th EXCEPT ![t] = Idle]
    /\ last' = NoResponse
    /\ probe' = [probe EXCEPT !.done = TRUE, !.ret = ServiceResult(th[t], FALSE, "", <<>>)]

----------------------------------------------------------------------------

Next ==
    \E t \in Threads :
        \/ Post(t)
        \/ EnterTmp(t)
        \/ Download(t)
        \/ TranscribeAudio(t)
        \/ LoadModel(t)
        \/ RunModel(t)
        \/ ExitTmp(t)
        \/ Generate(t)
        \/ Validate(t)
        \/ CreateQuiz(t)
        \/ CreateQuestion(t)
        \/ Commit(t)
        \/ Respond(t)
        \/ ListQuizzes(t)
        \/ GetQuiz(t)
        \/ PatchQuiz(t)
        \/ DeleteQuiz(t)

Spec == Init /\ [][Next]_vars

\* The rows an earlier run of the server committed for a quiz of `user`: those the
\* transaction of CreateQuizView.post writes for a generated payload.
StoredQuiz(id, user, quiz_json) ==
    [id |-> id, user |-> user,
     title |-> Coerce(DictGet(quiz_json, "title", JStr(<<>>))),
     description |-> Coerce(DictGet(quiz_json, "description", JStr(<<>>))),
     video_url |-> UrlWatch, tx |-> ""]
StoredQuestions(id, quiz_json) ==
    {[quiz |-> id, ord |-> i,
      question_title |->
          Coerce(DictGet(QuestionsOf(quiz_json)[i], "question_title", JStr(<<>>))),
      question_options |->
          DictGet(QuestionsOf(quiz_json)[i], "question_options", JList(<<>>)),
      answer |-> Coerce(DictGet(QuestionsOf(quiz_json)[i], "answer", JStr(<<>>))),
      tx |-> ""] : i \in DOMAIN QuestionsOf(quiz_json)}

\* The server starts on a database that already holds one quiz, of the user that
\* creates none in this run.
InitStored ==
    /\ th = [t \in Threads |-> Idle]
    /\ last = NoResponse
    /\ \E user \in Users \ Posters :
        /\ Quiz = {StoredQuiz(1, user, Payload(<<"good", 0>>))}
        /\ Question = StoredQuestions(1, Payload(<<"good", 0>>))
    /\ quiz_seq = 1
    /\ dirs = {}
    /\ files = {}
    /\ _WHISPER_MODEL = 0
    /\ models = {}
    /\ requests = 0
    /\ probe = NoProbe

SpecStored == InitStored /\ [][Next]_vars

----------------------------------------------------------------------------
(* CreateQuizView.post and QuizService.create_quiz_from_youtube side by side *)

\* One thread handles the POST of a user, another calls the service for the same
\* user and URL; the external stages do the same for both: the download, the
\* loading of the speech model, the transcription, the AI service's response, and
\* the write that fails (0: none, 1: the Quiz insert, 1 + i: the insert of the
\* i-th Question, NumQuestions + 2: the commit).
ViewThread == "t1"
ServiceThread == "t2"

ValidPayload == <<"padded_answer", NumQuestions>>
AllGood ==
    [download |-> "mp3", loaded |-> TRUE, transcript |-> "text", payload |-> ValidPayload,
     fail_at |-> 0]
\* The outcomes, one stage at a time doing otherwise than in AllGood.
StageOutcomes ==
    {[AllGood EXCEPT !.download = o] : o \in DownloadOutcomes}
    \cup {[AllGood EXCEPT !.loaded = FALSE]}
    \cup {[AllGood EXCEPT !.transcript = o] : o \in TranscriptNames \cup {"raise"}}
    \cup {[AllGood EXCEPT !.payload = p] : p \in GeneratedPayloads \cup {NotJson}}
    \cup {[AllGood EXCEPT !.fail_at = k] : k \in {1, 2, NumQuestions + 1, NumQuestions + 2}}

UrlNames == {"watch", "noscheme", "vimeo"}

InitEquivalence ==
    /\ InitServer
    /\ \E user \in Posters, url \in UrlNames, outcomes \in StageOutcomes :
        probe = [fn |-> "create_quiz_from_youtube",
                 arg |-> [user |-> user, url |-> url, outcomes |-> outcomes],
                 done |-> FALSE, ret |-> <<>>]

\* Whether the k-th write of a creation succeeds.
Written(k) == probe.arg.outcomes.fail_at # k

NextEquivalence ==
    \/ requests = 0 /\ PostWith(ViewThread, probe.arg.user, probe.arg.url)
    \/ ServiceCall(ServiceThread, probe.arg.user, PostBody(probe.arg.url).url)
    \/ \E t \in {ViewThread, ServiceThread} :
        \/ EnterTmp(t)
        \/ DownloadWith(t, probe.arg.outcomes.download)
        \/ TranscribeAudio(t)
        \/ LoadModelWith(t, probe.arg.outcomes.loaded)
        \/ RunModelWith(t, probe.arg.outcomes.transcript)
    \/ ExitTmp(ViewThread)
    \/ GenerateWith(ViewThread, probe.arg.outcomes.payload)
    \/ Validate(ViewThread)
    \/ CreateQuizWith(ViewThread, Written(1))
    \/ CreateQuestionWith(ViewThread, Written(1 + th[ViewThread].i))
    \/ CommitWith(ViewThread, Written(NumQuestions + 2))
    \/ Respond(ViewThread)
    \/ ServiceExitTmp(ServiceThread)
    \/ ServiceGenerate(ServiceThread, probe.arg.outcomes.payload)
    \/ ServiceValidate(ServiceThread)
    \/ ServiceCreateQuiz(ServiceThread, Written(1))
    \/ ServiceCreateQuestion(ServiceThread, Written(1 + th[ServiceThread].i))
    \/ ServiceCommit(ServiceThread, Written(NumQuestions + 2))
    \/ ServiceReturn(ServiceThread)

SpecEquivalence == InitEquivalence /\ [][NextEquivalence]_vars

----------------------------------------------------------------------------
(* Direct calls of utils.validate_quiz_json *)

\* The decoded JSON values the validator is called with, each held by a
\* description: the type of the top-level value; for an object the keys it has,
\* its title, its description and its questions; the position k of the one
\* question built from `elem` (0: every question is a good one) and what stands
\* at position 5 beside it.

AllKeys == {"title", "description", "questions"}

TitleKinds == {"text", "empty", "null"}
TitleValue(kind) ==
    CASE kind = "text" -> JStr(<<"T">>)
      [] kind = "empty" -> JStr(<<>>)
      [] OTHER -> None

DescriptionKinds == {"text", "empty", "max", "long", "null"}
DescriptionValue(kind) ==
    CASE kind = "text" -> JStr(<<"D">>)
      [] kind = "empty" -> JStr(<<>>)
      [] kind = "max" -> JStr([i \in 1..MaxDescription |-> "x"])
      [] kind = "long" -> LongDescription
      [] OTHER -> None

QuestionsKinds == {"ten", "nine", "eleven", "empty", "null"}
QuestionsCount(kind) ==
    CASE kind = "ten" -> NumQuestions
      [] kind = "nine" -> NumQuestions - 1
      [] kind = "eleven" -> NumQuestions + 1
      [] OTHER -> 0

\* One element of the questions list: <<title, options, answer>> for an object,
\* <<"not_a_dict", type, "">> for another value.
ElemTitles == {"text", "padded", "blank", "int", "missing"}
ElemOptions == {"four", "three", "five", "duplicate", "ints", "nested", "null"}
ElemAnswers == {"A", "E", "one", "int_one", "null", "missing"}
ElemKinds ==
    (ElemTitles \X ElemOptions \X ElemAnswers)
    \cup {<<"not_a_dict", type, "">> : type \in {"str", "null", "list"}}
GoodElem == <<"text", "four", "A">>

ElemTitleValue(kind) ==
    CASE kind = "text" -> JStr(<<"Q">>)
      [] kind = "padded" -> JStr(<<" ", "Q", "\n">>)
      [] kind = "blank" -> JStr(<<" ", "\t">>)
      [] OTHER -> JNum(<<"7">>)

ElemOptionsValue(kind) ==
    CASE kind = "four" -> GoodOptions
      [] kind = "three" -> JList(<<Opt("A"), Opt("B"), Opt("C")>>)
      [] kind = "five" -> JList(<<Opt("A"), Opt("B"), Opt("C"), Opt("D"), Opt("E")>>)
      [] kind = "duplicate" -> JList(<<Opt("A"), Opt("B"), Opt("C"), Opt("A")>>)
      [] kind = "ints" -> JList(<<JNum(<<"1">>), JNum(<<"2">>), Opt("1"), Opt("A")>>)
      [] kind = "nested" -> JList(<<Opt("A"), Opt("B"), Opt("C"), JList(<<Opt("D")>>)>>)
      [] OTHER -> None

ElemAnswerValue(kind) ==
    CASE kind = "A" -> Opt("A")
      [] kind = "E" -> Opt("E")
      [] kind = "one" -> Opt("1")
      [] kind = "int_one" -> JNum(<<"1">>)
      [] OTHER -> None

\* A function with the one key, or with none when the key is left out.
Field(key, present, value) == [k \in (IF present THEN {key} ELSE {}) |-> value]

ElemValue(e) ==
    IF e[1] = "not_a_dict"
    THEN CASE e[2] = "str" -> JStr(<<"Q">>)
           [] e[2] = "null" -> None
           [] OTHER -> JList(<<Opt("A")>>)
    ELSE JDict(Field("question_title", e[1] # "missing", ElemTitleValue(e[1]))
               @@ Field("question_options", TRUE, ElemOptionsValue(e[2]))
               @@ Field("answer", e[3] # "missing", ElemAnswerValue(e[3])))

OtherKinds == {"good", "blank_title", "not_a_dict"}
OtherElem(kind) ==
    CASE kind = "good" -> GoodElem
      [] kind = "blank_title" -> <<"blank", "four", "A">>
      [] OTHER -> <<"not_a_dict", "str", "">>

ValidatorArgs ==
    {[top |-> top, keys |-> AllKeys, title |-> "text", description |-> "text",
      questions |-> "ten", k |-> 0, elem |-> GoodElem, other |-> "good"] :
        top \in {"list", "str", "int", "null"}}
    \cup {[top |-> "dict", keys |-> keys, title |-> title, description |-> description,
           questions |-> questions, k |-> 0, elem |-> GoodElem, other |-> "good"] :
            keys \in SUBSET AllKeys, title \in TitleKinds,
            description \in DescriptionKinds, questions \in QuestionsKinds}
    \cup {[top |-> "dict", keys |-> AllKeys, title |-> "text", description |-> "text",
           questions |-> "ten", k |-> k, elem |-> elem, other |-> other] :
            k \in {1, NumQuestions}, elem \in ElemKinds, other \in OtherKinds}

\* The value a description stands for.
ValidatorArg(a) ==
    CASE a.top = "list" -> JList(<<GoodQuestion>>)
      [] a.top = "str" -> JStr(<<"T">>)
      [] a.top = "int" -> JNum(<<"1">>)
      [] a.top = "null" -> None
      [] OTHER ->
            LET elems ==
                    [i \in 1..QuestionsCount(a.questions) |->
                        IF i = a.k THEN ElemValue(a.elem)
                        ELSE IF i = 5 /\ a.k # 0 THEN ElemValue(OtherElem(a.other))
                        ELSE GoodQuestion]
                questions == IF a.questions = "null" THEN None ELSE JList(elems)
            IN  JDict(Field("title", "title" \in a.keys, TitleValue(a.title))
                      @@ Field("description", "description" \in a.keys,
                               DescriptionValue(a.description))
                      @@ Field("questions", "questions" \in a.keys, questions))

InitValidator ==
    /\ InitServer
    /\ \E a \in ValidatorArgs :
        probe = [fn |-> "validate_quiz_json", arg |-> a, done |-> FALSE, ret |-> <<>>]

\* ok, err = validate_quiz_json(q), or the exception it raised.
CallValidator ==
    /\ probe.fn = "validate_quiz_json" /\ ~probe.done
    /\ probe' = [probe EXCEPT !.done = TRUE,
                              !.ret = validate_quiz_json(ValidatorArg(probe.arg))]
    /\ UNCHANGED server_vars

NextValidator == CallValidator

SpecValidator == InitValidator /\ [][NextValidator]_vars

----------------------------------------------------------------------------
(* Direct calls of utils.extract_video_id *)

\* The least index of s that holds one of chars, 0 when none does: str.find.
Find(s, chars) ==
    LET hits == {i \in DOMAIN s : s[i] \in chars}
    IN  IF hits = {} THEN 0 ELSE CHOOSE i \in hits : \A j \in hits : i <= j

Before(s, i) == SubSeq(s, 1, i - 1)
After(s, i) == SubSeq(s, i + 1, Len(s))

\* The characters urlsplit accepts in a scheme, of those the texts here are made of.
SchemeChars ==
    {"a", "b", "c", "d", "e", "f", "g", "h", "i", "j", "k", "l", "m", "n", "o", "p",
     "q", "r", "s", "t", "u", "v", "w", "x", "y", "z", "B", "C", "E", "M", "O", "T",
     "U", "W", "Y", "0", "1", "2", "3", "4", "5", "6", "7", "8", "9", "+", "-", "."}
SchemeNonLetters == {"0", "1", "2", "3", "4", "5", "6", "7", "8", "9", "+", "-", "."}

\* parse_qsl(query, keep_blank_values=True): the <<name, value>> pairs of the
\* pieces between "&", a piece without "=" having a blank value.
RECURSIVE ParseQuery(_)
ParseQuery(text) ==
    IF text = <<>> THEN <<>>
    ELSE LET amp == Find(text, {"&"})
             piece == IF amp = 0 THEN text ELSE Before(text, amp)
             rest == IF amp = 0 THEN <<>> ELSE After(text, amp)
             eq == Find(piece, {"="})
             pair == IF eq = 0 THEN <<piece, <<>>>> ELSE <<Before(piece, eq), After(piece, eq)>>
         IN  IF piece = <<>> THEN ParseQuery(rest) ELSE <<pair>> \o ParseQuery(rest)

\* urlparse(url) of a text without whitespace, ";", "[" and "%": the scheme up
\* to the first ":", the netloc after "//" up to the next "/", "?" or "#", then
\* the fragment after the first "#" and the query after the first "?" cut off
\* the path.
urlparse(url) ==
    LET colon == Find(url, {":"})
        has_scheme ==
            /\ colon > 1
            /\ url[1] \notin SchemeNonLetters
            /\ \A i \in 1..(colon - 1) : url[i] \in SchemeChars
        scheme == IF has_scheme THEN Lower(Before(url, colon)) ELSE <<>>
        rest1 == IF has_scheme THEN After(url, colon) ELSE url
        has_netloc == StartsWith(rest1, <<"/", "/">>)
        after == SubSeq(rest1, 3, Len(rest1))
        stop == Find(after, {"/", "?", "#"})
        netloc == IF ~has_netloc THEN <<>>
                  ELSE IF stop = 0 THEN after ELSE Before(after, stop)
        rest2 == IF ~has_netloc THEN rest1
                 ELSE IF stop = 0 THEN <<>> ELSE SubSeq(after, stop, Len(after))
        hash == Find(rest2, {"#"})
        rest3 == IF hash = 0 THEN rest2 ELSE Before(rest2, hash)
        mark == Find(rest3, {"?"})
    IN  [scheme |-> scheme, netloc |-> netloc,
         path |-> IF mark = 0 THEN rest3 ELSE Before(rest3, mark),
         query |-> IF mark = 0 THEN <<>> ELSE ParseQuery(After(rest3, mark))]

\* The texts extract_video_id is called with, each held by its parts: what
\* stands before the host, the host, the path, the query and the fragment.
PrefixKinds == {"https", "http", "relative", "none"}
PrefixText(kind) ==
    CASE kind = "https" -> <<"h", "t", "t", "p", "s", ":", "/", "/">>
      [] kind = "http" -> <<"h", "t", "t", "p", ":", "/", "/">>
      [] kind = "relative" -> <<"/", "/">>
      [] OTHER -> <<>>

HostKinds ==
    {"apex", "www", "short", "www_short", "upper", "upper_short", "mobile", "vimeo",
     "port", "empty"}
HostText(kind) ==
    CASE kind = "apex" -> <<"y", "o", "u", "t", "u", "b", "e", ".", "c", "o", "m">>
      [] kind = "www" -> <<"w", "w", "w", ".", "y", "o", "u", "t", "u", "b", "e", ".", "c", "o", "m">>
      [] kind = "short" -> <<"y", "o", "u", "t", "u", ".", "b", "e">>
      [] kind = "www_short" -> <<"w", "w", "w", ".", "y", "o", "u", "t", "u", ".", "b", "e">>
      [] kind = "upper" -> <<"Y", "o", "u", "T", "u", "b", "e", ".", "C", "O", "M">>
      [] kind = "upper_short" -> <<"Y", "O", "U", "T", "U", ".", "B", "E">>
      [] kind = "mobile" -> <<"m", ".", "y", "o", "u", "t", "u", "b", "e", ".", "c", "o", "m">>
      [] kind = "vimeo" -> <<"v", "i", "m", "e", "o", ".", "c", "o", "m">>
      [] kind = "port" -> <<"y", "o", "u", "t", "u", "b", "e", ".", "c", "o", "m", ":", "4", "4", "3">>
      [] OTHER -> <<>>

PathKinds ==
    {"root", "watch", "watch_slash", "Watch", "id", "slashes", "two", "shorts",
     "shorts_more", "shorts_none", "shorts_bare", "embed", "embed_none", "v", "empty"}
PathText(kind) ==
    CASE kind = "root" -> <<"/">>
      [] kind = "watch" -> <<"/", "w", "a", "t", "c", "h">>
      [] kind = "watch_slash" -> <<"/", "w", "a", "t", "c", "h", "/">>
      [] kind = "Watch" -> <<"/", "W", "a", "t", "c", "h">>
      [] kind = "id" -> <<"/", "X">>
      [] kind = "slashes" -> <<"/", "/", "X", "/">>
      [] kind = "two" -> <<"/", "X", "/", "Y">>
      [] kind = "shorts" -> <<"/", "s", "h", "o", "r", "t", "s", "/", "X">>
      [] kind = "shorts_more" -> <<"/", "s", "h", "o", "r", "t", "s", "/", "X", "/", "Y">>
      [] kind = "shorts_none" -> <<"/", "s", "h", "o", "r", "t", "s", "/">>
      [] kind = "shorts_bare" -> <<"/", "s", "h", "o", "r", "t", "s">>
      [] kind = "embed" -> <<"/", "e", "m", "b", "e", "d", "/", "X">>
      [] kind = "embed_none" -> <<"/", "e", "m", "b", "e", "d", "/">>
      [] kind = "v" -> <<"/", "v", "/", "X">>
      [] OTHER -> <<>>

QueryKinds == {"v", "blank", "later", "twice", "other", "bare", "none"}
QueryText(kind) ==
    CASE kind = "v" -> <<"?", "v", "=", "X">>
      [] kind = "blank" -> <<"?", "v", "=">>
      [] kind = "later" -> <<"?", "t", "=", "1", "&", "v", "=", "X">>
      [] kind = "twice" -> <<"?", "v", "=", "X", "&", "v", "=", "Y">>
      [] kind = "other" -> <<"?", "t", "=", "1">>
      [] kind = "bare" -> <<"?", "v">>
      [] OTHER -> <<>>

FragmentKinds == {"f", "none"}
FragmentText(kind) == IF kind = "f" THEN <<"#", "f">> ELSE <<>>

ResolverArgs ==
    [prefix : PrefixKinds, host : HostKinds, path : PathKinds, query : QueryKinds,
     fragment : FragmentKinds]

UrlText(a) ==
    PrefixText(a.prefix) \o HostText(a.host) \o PathText(a.path) \o QueryText(a.query)
    \o FragmentText(a.fragment)

InitResolver ==
    /\ InitServer
    /\ \E a \in ResolverArgs :
        probe = [fn |-> "extract_video_id", arg |-> a, done |-> FALSE, ret |-> <<>>]

\* video_id = extract_video_id(url)
CallResolver ==
    /\ probe.fn = "extract_video_id" /\ ~probe.done
    /\ probe' = [probe EXCEPT !.done = TRUE,
                              !.ret = extract_video_id(urlparse(UrlText(probe.arg)))]
    /\ UNCHANGED server_vars

NextResolver == CallResolver

SpecResolver == InitResolver /\ [][NextResolver]_vars

----------------------------------------------------------------------------
(* utils.generate_quiz_with_gemini, lines 151-160: the response text to a value *)

JBool(b) == [t |-> "bool", v |-> <<b>>]

\* What a parsing step returns: the value with the text left after it, or no match.
NoMatch == [ok |-> FALSE, v |-> None, rest |-> <<>>]
Match(v, rest) == [ok |-> TRUE, v |-> v, rest |-> rest]

\* The characters a JSON string may not hold unescaped.
ControlChars == {"\n", "\t"}

\* A JSON string at the head of s: up to the next quote.
ParseString(s) ==
    LET close == Find(Tail(s), {"\""})
    IN  IF s = <<>> \/ Head(s) # "\"" \/ close = 0 THEN NoMatch
        ELSE IF \E i \in 1..(close - 1) : Tail(s)[i] \in ControlChars THEN NoMatch
        ELSE Match(JStr(Before(Tail(s), close)), After(Tail(s), close))

JsonDigits == {"0", "1", "2", "3", "4", "5", "6", "7", "8", "9"}

\* The number of digits at the head of s.
RECURSIVE DigitRun(_)
DigitRun(s) == IF s # <<>> /\ Head(s) \in JsonDigits THEN 1 + DigitRun(Tail(s)) ELSE 0

\* A JSON integer at the head of s: 0, or a run of digits that starts with another.
ParseNumber(s) ==
    LET n == IF Head(s) = "0" THEN 1 ELSE DigitRun(s)
    IN  Match(JNum(SubSeq(s, 1, n)), SubSeq(s, n + 1, Len(s)))

\* json.JSONDecoder: a value at the head of s after whitespace; the elements of
\* an array after its "[" or a ","; the members of an object after its "{" or a
\* ",", a key given twice keeping its last value.
RECURSIVE ParseValue(_), ParseElements(_, _), ParseMembers(_, _)
ParseValue(s) ==
    LET text == LStrip(s)
    IN  IF text = <<>> THEN NoMatch
        ELSE IF Head(text) = "\"" THEN ParseString(text)
        ELSE IF Head(text) \in JsonDigits THEN ParseNumber(text)
        ELSE IF StartsWith(text, <<"n", "u", "l", "l">>)
            THEN Match(None, SubSeq(text, 5, Len(text)))
        ELSE IF StartsWith(text, <<"t", "r", "u", "e">>)
            THEN Match(JBool(TRUE), SubSeq(text, 5, Len(text)))
        ELSE IF StartsWith(text, <<"f", "a", "l", "s", "e">>)
            THEN Match(JBool(FALSE), SubSeq(text, 6, Len(text)))
        ELSE IF Head(text) = "["
            THEN IF StartsWith(LStrip(Tail(text)), <<"]">>)
                 THEN Match(JList(<<>>), Tail(LStrip(Tail(text))))
                 ELSE ParseElements(Tail(text), <<>>)
        ELSE IF Head(text) = "{"
            THEN IF StartsWith(LStrip(Tail(text)), <<"}">>)
                 THEN Match(JDict(<<>>), Tail(LStrip(Tail(text))))
                 ELSE ParseMembers(Tail(text), <<>>)
        ELSE NoMatch
ParseElements(s, items) ==
    LET value == ParseValue(s)
        text == LStrip(value.rest)
    IN  IF ~value.ok \/ text = <<>> THEN NoMatch
        ELSE IF Head(text) = "]" THEN Match(JList(Append(items, value.v)), Tail(text))
        ELSE IF Head(text) = "," THEN ParseElements(Tail(text), Append(items, value.v))
        ELSE NoMatch
ParseMembers(s, fields) ==
    LET key == ParseString(LStrip(s))
        colon == LStrip(key.rest)
        value == ParseValue(Tail(colon))
        text == LStrip(value.rest)
    IN  IF ~key.ok \/ colon = <<>> \/ Head(colon) # ":" THEN NoMatch
        ELSE IF ~value.ok \/ text = <<>> THEN NoMatch
        ELSE IF Head(text) = "}"
            THEN Match(JDict((key.v.v :> value.v) @@ fields), Tail(text))
        ELSE IF Head(text) = ","
            THEN ParseMembers(Tail(text), (key.v.v :> value.v) @@ fields)
        ELSE NoMatch

\* json.loads(text): one value, with nothing but whitespace around it.
json_loads(text) ==
    IF ParseValue(text).ok /\ LStrip(ParseValue(text).rest) = <<>>
    THEN ParseValue(text) ELSE NoMatch

\* s without every character of chars.
RemoveChars(s, chars) == SelectSeq(s, LAMBDA c : c \notin chars)

\* s.strip(chars): the characters of chars removed from both ends.
RECURSIVE LStripChars(_, _)
LStripChars(s, chars) ==
    IF s # <<>> /\ Head(s) \in chars THEN LStripChars(Tail(s), chars) ELSE s
RECURSIVE RStripChars(_, _)
RStripChars(s, chars) ==
    IF s # <<>> /\ s[Len(s)] \in chars
    THEN RStripChars(SubSeq(s, 1, Len(s) - 1), chars) ELSE s
StripChars(s, chars) == RStripChars(LStripChars(s, chars), chars)

\* s.replace(old, "", 1): s without the first occurrence of old.
ReplaceFirst(s, old) ==
    LET hits == {i \in 1..(Len(s) - Len(old) + 1) : SubSeq(s, i, i + Len(old) - 1) = old}
        first == CHOOSE i \in hits : \A j \in hits : i <= j
    IN  IF hits = {} THEN s
        ELSE SubSeq(s, 1, first - 1) \o SubSeq(s, first + Len(old), Len(s))

\* The character U+0060, the grave accent.
Backtick == "U+0060"
JsonTag == <<"j", "s", "o", "n">>
JsonFence == <<Backtick, Backtick, Backtick>> \o JsonTag

\* Lines 151-155: the text handed to json.loads, for response.text (None or a text).
ResponseText(response) ==
    LET text == Strip(IF response.t = "none" THEN <<>> ELSE response.v)
    IN  IF StartsWith(text, JsonFence)
        THEN Strip(ReplaceFirst(StripChars(text, {Backtick}), JsonTag))
        ELSE text

\* Lines 151-160 of generate_quiz_with_gemini: the parsed value, or the exception.
generate_quiz_with_gemini(response) ==
    IF json_loads(ResponseText(response)).ok
    THEN [raised |-> FALSE, value |-> json_loads(ResponseText(response)).v, exc |-> ""]
    ELSE [raised |-> TRUE, value |-> None, exc |-> "Generated content is not valid JSON."]

\* The texts of the AI service's responses: a JSON text or another text, as it
\* is or inside a fence.
JsonKinds ==
    {"empty_object", "empty_array", "null", "true", "false", "number", "zero",
     "string", "string_json", "string_fence", "string_fenced_json", "object",
     "value_json", "key_json", "value_backticks", "value_backtick", "array", "nested",
     "two_keys", "key_twice", "lines", "padded", "compact"}
JsonText(kind) ==
    CASE kind = "empty_object" -> <<"{", "}">>
      [] kind = "empty_array" -> <<"[", "]">>
      [] kind = "null" -> <<"n", "u", "l", "l">>
      [] kind = "true" -> <<"t", "r", "u", "e">>
      [] kind = "false" -> <<"f", "a", "l", "s", "e">>
      [] kind = "number" -> <<"1", "2">>
      [] kind = "zero" -> <<"0">>
      [] kind = "string" -> <<"\"", "s", "\"">>
      [] kind = "string_json" -> <<"\"", "j", "s", "o", "n", "\"">>
      [] kind = "string_fence" -> <<"\"", Backtick, Backtick, Backtick, "\"">>
      [] kind = "string_fenced_json" -> <<"\"", Backtick, Backtick, Backtick, "j", "s", "o", "n", "\"">>
      [] kind = "object" -> <<"{", "\"", "a", "\"", ":", " ", "1", "}">>
      [] kind = "value_json" -> <<"{", "\"", "a", "\"", ":", " ", "\"", "j", "s", "o", "n", "\"", "}">>
      [] kind = "key_json" -> <<"{", "\"", "j", "s", "o", "n", "\"", ":", " ", "1", "}">>
      [] kind = "value_backticks" -> <<"{", "\"", "a", "\"", ":", " ", "\"", Backtick, "x", Backtick, "\"", "}">>
      [] kind = "value_backtick" -> <<"{", "\"", "a", "\"", ":", " ", "\"", Backtick, "\"", "}">>
      [] kind = "array" -> <<"[", "1", ",", " ", "\"", "a", "\"", ",", " ", "n", "u", "l", "l", "]">>
      [] kind = "nested" -> <<"{", "\"", "a", "\"", ":", " ", "{", "\"", "b", "\"", ":", " ", "[", "1", "]", "}", "}">>
      [] kind = "two_keys" -> <<"{", "\"", "a", "\"", ":", " ", "1", ",", " ", "\"", "b", "\"", ":", " ", "\"", "x", " ", "y", "\"", "}">>
      [] kind = "key_twice" -> <<"{", "\"", "a", "\"", ":", " ", "1", ",", " ", "\"", "a", "\"", ":", " ", "2", "}">>
      [] kind = "lines" -> <<"{", "\n", " ", "\"", "a", "\"", ":", " ", "[", "\n", " ", " ", "\"", "j", "s", "o", "n", "\"", ",", "\n", " ", " ", "\"", Backtick, "\"", "\n", " ", "]", "\n", "}">>
      [] kind = "padded" -> <<" ", "{", "\"", "a", "\"", ":", "1", "}", "\n">>
      [] OTHER -> <<"{", "\"", "a", "\"", ":", "[", "]", ",", "\"", "b", "\"", ":", "{", "}", "}">>

NonJsonKinds ==
    {"empty", "prose", "tag", "open_object", "open_array", "open_string", "no_value",
     "extra_data", "two_values", "trailing_comma", "array_comma", "no_comma",
     "no_colon", "bare_key", "leading_zero", "line_in_string", "backticks"}
NonJsonText(kind) ==
    CASE kind = "empty" -> <<>>
      [] kind = "prose" -> <<"a", " ", "q", "u", "i", "z">>
      [] kind = "tag" -> <<"j", "s", "o", "n">>
      [] kind = "open_object" -> <<"{", "\"", "a", "\"", ":", " ", "1">>
      [] kind = "open_array" -> <<"[", "1", ",", " ", "\"", "a", "\"">>
      [] kind = "open_string" -> <<"{", "\"", "a", "\"", ":", " ", "\"", "x">>
      [] kind = "no_value" -> <<"{", "\"", "a", "\"", ":", " ", "}">>
      [] kind = "extra_data" -> <<"{", "\"", "a", "\"", ":", " ", "1", "}", " ", "x">>
      [] kind = "two_values" -> <<"{", "\"", "a", "\"", ":", " ", "1", "}", "{", "\"", "b", "\"", ":", " ", "2", "}">>
      [] kind = "trailing_comma" -> <<"{", "\"", "a", "\"", ":", " ", "1", ",", "}">>
      [] kind = "array_comma" -> <<"[", "1", ",", "]">>
      [] kind = "no_comma" -> <<"[", "1", " ", "2", "]">>
      [] kind = "no_colon" -> <<"{", "\"", "a", "\"", " ", "1", "}">>
      [] kind = "bare_key" -> <<"{", "a", ":", " ", "1", "}">>
      [] kind = "leading_zero" -> <<"0", "1">>
      [] kind = "line_in_string" -> <<"\"", "x", "\n", "y", "\"">>
      [] OTHER -> <<Backtick, "1", Backtick>>

Newline == <<"\n">>
Fence == <<Backtick, Backtick, Backtick>>

ResponseForms == {"plain", "fenced", "fenced_padded", "fenced_tight", "bare_fence", "upper_tag"}
Wrap(form, text) ==
    CASE form = "plain" -> text
      [] form = "fenced" -> JsonFence \o Newline \o text \o Newline \o Fence
      [] form = "fenced_padded" ->
            <<"\n", " ">> \o JsonFence \o Newline \o text \o Newline \o Fence \o <<" ", "\n">>
      [] form = "fenced_tight" -> JsonFence \o text \o Fence
      [] form = "bare_fence" -> Fence \o Newline \o text \o Newline \o Fence
      [] OTHER -> Fence \o <<"J", "S", "O", "N">> \o Newline \o text \o Newline \o Fence

GeneratorArgs ==
    [form : ResponseForms, kind : JsonKinds \cup NonJsonKinds]
    \cup {[form |-> "none", kind |-> "empty"]}

\* response.text
Response(a) ==
    IF a.form = "none" THEN None
    ELSE IF a.kind \in JsonKinds THEN JStr(Wrap(a.form, JsonText(a.kind)))
    ELSE JStr(Wrap(a.form, NonJsonText(a.kind)))

InitGenerator ==
    /\ InitServer
    /\ \E a \in GeneratorArgs :
        probe = [fn |-> "generate_quiz_with_gemini", arg |-> a, done |-> FALSE, ret |-> <<>>]

\* quiz_json = generate_quiz_with_gemini(prompt), the service answering Response(arg)
CallGenerator ==
    /\ probe.fn = "generate_quiz_with_gemini" /\ ~probe.done
    /\ probe' = [probe EXCEPT !.done = TRUE,
                              !.ret = generate_quiz_with_gemini(Response(probe.arg))]
    /\ UNCHANGED server_vars

NextGenerator == CallGenerator

SpecGenerator == InitGenerator /\ [][NextGenerator]_vars

----------------------------------------------------------------------------
(* Properties *)

QuestionsOfQuiz(rows, id) == {q \in rows : q.quiz = id}

\* The requests of threads that are inside the with block of the temporary directory.
InTmp(t) == th[t].pc \in {"download", "transcribe", "load_model", "run_model", "exit_tmp"}

C2_AllOrNothing ==
    /\ \A id \in 1..quiz_seq :
        LET quiz == {q \in Committed.Quiz : q.id = id}
            questions == QuestionsOfQuiz(Committed.Question, id)
        IN  \/ quiz = {} /\ questions = {}
            \/ Cardinality(quiz) = 1 /\ Cardinality(questions) = NumQuestions
    /\ (last.op = "post" /\ last.status = 500 /\ last.quiz # 0) =>
            /\ {q \in Quiz : q.id = last.quiz} = {}
            /\ QuestionsOfQuiz(Question, last.quiz) = {}

\* An attempt has failed after its Quiz row was inserted, while the other thread's
\* transaction holds uncommitted rows.
C2_Witness ==
    /\ last.op = "post" /\ last.status = 500 /\ last.quiz # 0
    /\ \E q \in Question : q.tx # ""

\* C3: in every reachable state every persisted Question's stored answer equals,
\* by exact string match, one element of its stored question_options.
C3_AnswerAmongOptions ==
    \A q \in Committed.Question : PyIn(JStr(q.answer), q.question_options.v)

\* C4: every persisted Question's question_options is a sequence of exactly 4
\* pairwise distinct entries, and no step changes the options of an existing
\* Question.
C4_OptionsShape ==
    \A q \in Question :
        /\ q.question_options.t = "list"
        /\ Len(q.question_options.v) = NumOptions
        /\ \A i, j \in DOMAIN q.question_options.v :
            i # j => ~PyEq(q.question_options.v[i], q.question_options.v[j])
C4_OptionsKept ==
    \A q \in Question : \A p \in Question' :
        (p.quiz = q.quiz /\ p.ord = q.ord) => p.question_options = q.question_options
C4_FourDistinctOptions == []C4_OptionsShape /\ [][C4_OptionsKept]_vars

\* A quiz with its questions is persisted and its owner has just patched it.
C4_Witness ==
    /\ Committed.Question # {}
    /\ last.op = "patch" /\ last.status = 200

\* C5: under every interleaving of the callers of transcribe_audio the speech
\* model is constructed at most once, and every call transcribes against that
\* single instance.
C5_OneModel ==
    /\ Cardinality(models) <= 1
    /\ \A t \in Threads : th[t].model \in {0} \cup models /\ th[t].model <= 1

PipelinePrefix(trace) ==
    /\ Len(trace) <= Len(StageOrder)
    /\ \A i \in DOMAIN trace :
        /\ trace[i].stage = StageOrder[i]
        /\ i < Len(trace) => trace[i].out = "ok"

\* C6: within one creation request the stages run at most once each, in the order
\* Resolver, Acquirer, Transcriber, Generator, Validator, Persistence, and a stage
\* starts only if every earlier one succeeded (an empty transcript counts as the
\* Transcriber not succeeding); a request that ended in a failure ended in the
\* stage that failed.
C6_StagesInOrder ==
    /\ \A t \in Threads : PipelinePrefix(th[t].trace)
    /\ PipelinePrefix(last.trace)
    /\ (last.op = "post" /\ last.status # 201 /\ last.trace # <<>>) =>
            last.trace[Len(last.trace)].out \in {"failed", "empty"}

\* A request has ended on an empty transcript: three stages ran, no more.
C6_Witness ==
    /\ last.op = "post"
    /\ Len(last.trace) = 3
    /\ last.trace[3].out = "empty"

\* The POST body's URL resolves to a video id.
Resolves(body) == "url" \in DOMAIN body /\ extract_video_id(body.url).t = "str"

PostAnswered == last.op = "post" /\ last.status # 0

\* C7 as stated: 201 exactly when the quiz was committed, 400 exactly when the URL
\* does not resolve to a video id, 500 otherwise, and no 400 or 500 changes the rows.
C7_Original ==
    PostAnswered =>
        /\ last.status \in {201, 400, 500}
        /\ last.status = 201 <=> last.wrote
        /\ last.status = 400 <=> ~Resolves(PostBody(last.body))
        /\ last.status \in {400, 500} => ~last.wrote

\* C7, amended: 400 exactly when the body fails the validation of its url field or
\* the URL does not resolve to a video id; 201 exactly when the quiz with its 10
\* questions was committed (then all six stages succeeded); 500 for every other
\* outcome; a request answered 400 or 500 changed no persisted row.
C7_Statuses ==
    PostAnswered =>
        LET body == PostBody(last.body)
            valid == CreateQuestionSerializerValid(body)
        IN  /\ last.status \in {201, 400, 500}
            /\ last.status = 201 <=> last.wrote
            /\ last.status = 201 <=>
                    (Len(last.trace) = Len(StageOrder)
                     /\ \A i \in DOMAIN last.trace : last.trace[i].out = "ok")
            /\ last.status = 400 <=> (~valid \/ ~Resolves(body))
            /\ last.status \in {400, 500} => ~last.wrote

\* A request failed inside the transaction and was answered 500.
C7_Witness ==
    /\ PostAnswered /\ last.status = 500
    /\ Len(last.trace) = Len(StageOrder)

\* C8: a request's temporary directory exists only while the request is inside the
\* acquire-and-transcribe block: once the block is left, on any path, the
\* directory and its files are gone (so it is gone before the generation call);
\* and no two requests hold the same directory.
C8_TmpReclaimed ==
    /\ \A d \in dirs : InTmp(d.owner) /\ th[d.owner].tmp_dir = d.name
    /\ \A d, e \in dirs : d.name = e.name => d = e
    /\ \A f \in files : \E d \in dirs : d.name = f.dir
    /\ \A t \in Threads : ~InTmp(t) => ~\E d \in dirs : d.owner = t

\* A request whose download failed has left the block (its files are gone) while
\* the other thread still works in its own directory.
C8_Witness ==
    /\ last.op = "post" /\ last.status = 500
    /\ Len(last.trace) = 2
    /\ \E t \in Threads : InTmp(t) /\ \E f \in files : f.dir = th[t].tmp_dir

\* C9: a per-id GET, PATCH or DELETE is answered 404 exactly when no Quiz has the
\* id, and 403 exactly when there is one and the caller is not its owner; in both
\* cases the answer carries no quiz data and no row is changed or deleted; only
\* the owner's request returns the quiz, modifies it or deletes it.
C9_Step ==
    last'.op \in {"get", "patch", "delete"} =>
        LET r == last'
            found == QuizzesWithPk(r.pk)
            owned == \E q \in found : q.user = r.user
        IN  /\ r.status = 404 <=> found = {}
            /\ r.status = 403 <=> (found # {} /\ ~owned)
            /\ r.status \in {403, 404} =>
                    /\ Committed' = Committed
                    /\ DOMAIN r.data = {"error"}
            /\ r.status \in {200, 204} => owned
            /\ Committed' # Committed => owned
C9_OwnerOnly == [][C9_Step]_vars

\* bob's PATCH of alice's quiz was answered 403.
C9_Witness ==
    /\ last.op = "patch" /\ last.status = 403
    /\ \E q \in Committed.Quiz : q.id = last.pk /\ q.user # last.user

\* C10: an update of a Quiz changes only its title and description: whatever the
\* body carries, the owner, the video_url and the Questions stay as they were.
C10_Step ==
    last'.op = "patch" =>
        /\ Committed'.Question = Committed.Question
        /\ \A q \in Committed.Quiz : \A p \in Committed'.Quiz :
            p.id = q.id => (p.user = q.user /\ p.video_url = q.video_url)
C10_TitleAndDescriptionOnly == [][C10_Step]_vars

\* C11: after a Quiz is deleted none of its Questions remain; in every reachable
\* state every persisted Question references a Quiz that exists (a committed
\* Question a committed Quiz); and the deletion of one Quiz leaves every other
\* Quiz and its Questions unchanged.
C11_NoOrphans ==
    /\ \A q \in Question : \E z \in Quiz : z.id = q.quiz
    /\ \A q \in Committed.Question : \E z \in Committed.Quiz : z.id = q.quiz
C11_Step ==
    (last'.op = "delete" /\ last'.status = 204) =>
        /\ QuestionsOfQuiz(Question', last'.pk) = {}
        /\ {z \in Quiz' : z.id = last'.pk} = {}
        /\ Quiz' = {z \in Quiz : z.id # last'.pk}
        /\ Question' = {q \in Question : q.quiz # last'.pk}
C11_CascadeDelete == []C11_NoOrphans /\ [][C11_Step]_vars

\* A quiz was just deleted while another quiz with its questions is persisted.
C11_Witness ==
    /\ last.op = "delete" /\ last.status = 204
    /\ \E z \in Committed.Quiz :
        z.id # last.pk /\ QuestionsOfQuiz(Committed.Question, z.id) # {}

ValidatorReturned == probe.fn = "validate_quiz_json" /\ probe.done

\* C12: for every decoded JSON value (object, list, scalar, null, objects whose
\* questions list holds non-object elements or whose question_options hold
\* non-scalar elements) validate_quiz_json returns a (verdict, reason) pair and
\* never raises.
C12_NeverRaises == ValidatorReturned => ~probe.ret.raised

\* The rules of the validator, stated over the value.
Rule1(q) == q.t = "dict"
Rule2(q) == AllKeys \subseteq DOMAIN q.v
Rule3(q) == q.v["description"].t = "str" /\ Len(q.v["description"].v) <= MaxDescription
Rule4(q) == q.v["questions"].t = "list" /\ Len(q.v["questions"].v) = NumQuestions

\* The checks of rule 5 on one element of the questions.
HasField(e, key, type) == e.t = "dict" /\ key \in DOMAIN e.v /\ e.v[key].t = type
TitleCheck(e) ==
    /\ HasField(e, "question_title", "str")
    /\ \E j \in DOMAIN e.v["question_title"].v : ~IsSpace(e.v["question_title"].v[j])
CountCheck(e) ==
    HasField(e, "question_options", "list") /\ Len(e.v["question_options"].v) = NumOptions
DistinctCheck(e) ==
    \A i, j \in DOMAIN e.v["question_options"].v :
        i # j => e.v["question_options"].v[i] # e.v["question_options"].v[j]
AnswerCheck(e) ==
    /\ HasField(e, "answer", "str")
    /\ \E j \in DOMAIN e.v["question_options"].v : e.v["question_options"].v[j] = e.v["answer"]
ElementPasses(e) == TitleCheck(e) /\ CountCheck(e) /\ DistinctCheck(e) /\ AnswerCheck(e)
Rule5(q) == \A i \in DOMAIN q.v["questions"].v : ElementPasses(q.v["questions"].v[i])

\* The reason of the first failing check of element e, the i-th in sequence.
ElementReason(e, i) ==
    IF ~TitleCheck(e) THEN <<"Q", i, ": question_title missing/invalid.">>
    ELSE IF ~CountCheck(e) THEN <<"Q", i, ": must have exactly 4 options.">>
    ELSE IF ~DistinctCheck(e) THEN <<"Q", i, ": options must be distinct.">>
    ELSE <<"Q", i, ": answer must be one of the options.">>

\* What the rules say of a value: pass, or the reason of the first failing rule.
RulesVerdict(q) ==
    IF ~Rule1(q) THEN Verdict(FALSE, <<"Quiz is not a JSON object.">>)
    ELSE IF ~Rule2(q)
        THEN Verdict(FALSE, <<"Missing key: ",
                              CHOOSE key \in AllKeys \ DOMAIN q.v :
                                  \/ key = "title"
                                  \/ key = "description" /\ "title" \in DOMAIN q.v
                                  \/ AllKeys \ DOMAIN q.v = {key}>>)
    ELSE IF ~Rule3(q) THEN Verdict(FALSE, <<"description must be <= 500 characters.">>)
    ELSE IF ~Rule4(q) THEN Verdict(FALSE, <<"questions must contain exactly 10 questions.">>)
    ELSE IF ~Rule5(q)
        THEN LET elems == q.v["questions"].v
                 first == CHOOSE i \in DOMAIN elems :
                            /\ ~ElementPasses(elems[i])
                            /\ \A j \in 1..(i - 1) : ElementPasses(elems[j])
             IN  Verdict(FALSE, ElementReason(elems[first], first))
    ELSE Verdict(TRUE, <<>>)

\* C13: validate_quiz_json returns pass exactly when rules 1-5 hold, whatever the
\* title, and on a failure reports the reason of the first failing rule in the
\* order 1 to 5, the questions examined in sequence order, each question's checks
\* in the order title, option count, distinctness, answer, the question named by
\* its 1-based index.
C13_FirstFailingRule ==
    ValidatorReturned => probe.ret = RulesVerdict(ValidatorArg(probe.arg))

\* On every value on which the validator returns, it returns what the rules say.
C13_WhenItReturns ==
    (ValidatorReturned /\ ~probe.ret.raised) =>
        probe.ret = RulesVerdict(ValidatorArg(probe.arg))

ResolverReturned == probe.fn = "extract_video_id" /\ probe.done

\* The pieces of s between the separators: s.split(sep).
RECURSIVE Split(_, _)
Split(s, sep) ==
    IF Find(s, {sep}) = 0 THEN <<s>>
    ELSE <<Before(s, Find(s, {sep}))>> \o Split(After(s, Find(s, {sep})), sep)

\* The host of a URL text: what follows the "//", when the text has one.
HostOf(a) == IF a.prefix = "none" THEN <<>> ELSE HostText(a.host)

\* The value of the query parameter v, None when the query has none.
QueryV(a) == IF a.query \in {"v", "later", "twice"} THEN JStr(<<"X">>) ELSE None

ShortLinkHosts == {YoutuBe, Www \o YoutuBe}
CanonicalHosts == {YoutubeCom, Www \o YoutubeCom}

\* The segment of a path /<name>/<segment>, None for another path.
SegmentAfter(name, path) ==
    LET parts == Split(path, "/")
    IN  IF Len(parts) >= 3 /\ parts[1] = <<>> /\ parts[2] = name /\ parts[3] # <<>>
        THEN JStr(parts[3]) ELSE None

\* What the claim says extract_video_id returns for the text of parts a.
ClaimedVideoId(a) ==
    LET host == Lower(HostOf(a))
        path == PathText(a.path)
        segments == SelectSeq(Split(path, "/"), LAMBDA part : part # <<>>)
    IN  IF host \notin ShortLinkHosts \cup CanonicalHosts THEN None
        ELSE IF host \in ShortLinkHosts
            THEN IF segments = <<>> THEN None ELSE JStr(segments[1])
        ELSE IF path = <<"/", "w", "a", "t", "c", "h">> THEN QueryV(a)
        ELSE IF SegmentAfter(<<"s", "h", "o", "r", "t", "s">>, path) # None
            THEN SegmentAfter(<<"s", "h", "o", "r", "t", "s">>, path)
        ELSE SegmentAfter(<<"e", "m", "b", "e", "d">>, path)

\* C14: extract_video_id returns not-resolvable when the lower-cased host is
\* outside the allow-list {youtube.com, www.youtube.com, youtu.be, www.youtu.be};
\* for a short-link host (youtu.be or its www variant) the first non-empty path
\* segment, not-resolvable when there is none; for the canonical host the value
\* of the query parameter v when the path is exactly /watch (not-resolvable when
\* v is absent), the segment of /shorts/<segment> or /embed/<segment>, and
\* not-resolvable for any other path; it never returns an empty identifier.
C14_VideoId ==
    ResolverReturned =>
        /\ probe.ret = ClaimedVideoId(probe.arg)
        /\ probe.ret # JStr(<<>>)

\* The same for every host but www.youtu.be.
C14_OtherHosts ==
    (ResolverReturned /\ Lower(HostOf(probe.arg)) # Www \o YoutuBe) =>
        /\ probe.ret = ClaimedVideoId(probe.arg)
        /\ probe.ret # JStr(<<>>)

GeneratorReturned == probe.fn = "generate_quiz_with_gemini" /\ probe.done

\* The object each JSON text stands for.
JsonValue(kind) ==
    CASE kind = "empty_object" -> JDict(<<>>)
      [] kind = "empty_array" -> JList(<<>>)
      [] kind = "null" -> None
      [] kind = "true" -> JBool(TRUE)
      [] kind = "false" -> JBool(FALSE)
      [] kind = "number" -> JNum(<<"1", "2">>)
      [] kind = "zero" -> JNum(<<"0">>)
      [] kind = "string" -> JStr(<<"s">>)
      [] kind = "string_json" -> JStr(<<"j", "s", "o", "n">>)
      [] kind = "string_fence" -> JStr(<<Backtick, Backtick, Backtick>>)
      [] kind = "string_fenced_json" -> JStr(<<Backtick, Backtick, Backtick, "j", "s", "o", "n">>)
      [] kind = "object" -> JDict((<<"a">> :> JNum(<<"1">>)))
      [] kind = "value_json" -> JDict((<<"a">> :> JStr(<<"j", "s", "o", "n">>)))
      [] kind = "key_json" -> JDict((<<"j", "s", "o", "n">> :> JNum(<<"1">>)))
      [] kind = "value_backticks" -> JDict((<<"a">> :> JStr(<<Backtick, "x", Backtick>>)))
      [] kind = "value_backtick" -> JDict((<<"a">> :> JStr(<<Backtick>>)))
      [] kind = "array" -> JList(<<JNum(<<"1">>), JStr(<<"a">>), None>>)
      [] kind = "nested" -> JDict((<<"a">> :> JDict((<<"b">> :> JList(<<JNum(<<"1">>)>>)))))
      [] kind = "two_keys" -> JDict((<<"a">> :> JNum(<<"1">>)) @@ (<<"b">> :> JStr(<<"x", " ", "y">>)))
      [] kind = "key_twice" -> JDict((<<"a">> :> JNum(<<"2">>)))
      [] kind = "lines" -> JDict((<<"a">> :> JList(<<JStr(<<"j", "s", "o", "n">>), JStr(<<Backtick>>)>>)))
      [] kind = "padded" -> JDict((<<"a">> :> JNum(<<"1">>)))
      [] OTHER -> JDict((<<"a">> :> JList(<<>>)) @@ (<<"b">> :> JDict(<<>>)))

\* C15: for every JSON text J the post-processing of the response that holds J in
\* a JSON code fence (the opening fence with the json tag, a newline, J, a
\* newline, the closing fence) yields the same parsed object as that of J
\* unfenced, also when J holds backticks or the text json in its string values;
\* and a text that is not JSON after the post-processing yields a generation
\* failure, never a partial object.
C15_FencedAsUnfenced ==
    GeneratorReturned =>
        LET a == probe.arg
        IN  /\ (a.kind \in JsonKinds /\ a.form = "fenced") =>
                /\ probe.ret = generate_quiz_with_gemini(JStr(JsonText(a.kind)))
                /\ ~probe.ret.raised
                /\ probe.ret.value = JsonValue(a.kind)
            /\ (a.kind \in JsonKinds /\ a.form = "plain") =>
                /\ ~probe.ret.raised
                /\ probe.ret.value = JsonValue(a.kind)
            /\ (a.kind \in NonJsonKinds \/ a.form \in {"none", "bare_fence", "upper_tag"}) =>
                /\ probe.ret.raised
                /\ probe.ret.value = None
                /\ probe.ret.exc = "Generated content is not valid JSON."

\* A fenced JSON text with the text json and a backtick in its string values was
\* parsed.
C15_Witness ==
    /\ GeneratorReturned
    /\ probe.arg.form = "fenced" /\ probe.arg.kind = "lines"
    /\ probe.ret.value = JDict((<<"a">> :> JList(<<JStr(JsonTag), JStr(<<Backtick>>)>>)))

----------------------------------------------------------------------------
(* C16 *)

\* The view has answered the POST and the service's call has ended.
BothEnded ==
    /\ ServiceCalled /\ probe.done
    /\ last.op = "post" /\ last.status # 0

\* The kind of a response of the view.
ViewKind(response) ==
    CASE response.status = 201 -> "created"
      [] response.status = 400 -> "invalid_url"
      [] response.status = 500 /\ response.data.error = <<"Transcription failed.">> ->
            "transcription_empty"
      [] response.status = 500 /\ Head(response.data.error) = "Generated quiz is invalid: " ->
            "generation_invalid"
      [] OTHER -> "unclassified"

\* The kind of a result of the service.
ServiceKind(result) ==
    CASE ~result.raised -> "created"
      [] result.exc = "ValueError" /\ result.message = <<"Invalid YouTube URL.">> ->
            "invalid_url"
      [] result.exc = "RuntimeError" /\ result.message = <<"Transcription failed.">> ->
            "transcription_empty"
      [] result.exc = "ValueError" /\ Head(result.message) = "Generated quiz is invalid: " ->
            "generation_invalid"
      [] OTHER -> "unclassified"

\* The committed rows of quiz id, without the keys the database gave them.
PersistedRows(id) ==
    [Quiz |-> {[user |-> q.user, title |-> q.title, description |-> q.description,
                video_url |-> q.video_url] : q \in {x \in Committed.Quiz : x.id = id}},
     Question |-> {[ord |-> q.ord, question_title |-> q.question_title,
                    question_options |-> q.question_options, answer |-> q.answer] :
                        q \in {x \in Committed.Question : x.quiz = id}}]

SameStagesRowsAndKind ==
    /\ last.trace = probe.ret.trace
    /\ PersistedRows(last.quiz) = PersistedRows(probe.ret.quiz)
    /\ ViewKind(last) = ServiceKind(probe.ret)

\* C16 as stated: for the same user, URL and outcomes of the external stages the
\* view and the service invoke the same stages in the same order, leave the same
\* Quiz and Question rows, and the service fails exactly when the view answers
\* non-201, with the matching kind.
C16_Equivalent == BothEnded => SameStagesRowsAndKind

\* C16 amended: the view and the service are equivalent in this sense for every URL
\* that the view's url field accepts; for a URL that it refuses the view answers 400
\* having invoked no stage and written nothing, while the service goes on to
\* resolve it.
C16_EquivalentOnAcceptedUrls ==
    BothEnded =>
        IF CreateQuestionSerializerValid(PostBody(last.body))
        THEN SameStagesRowsAndKind
        ELSE /\ last.status = 400 /\ last.trace = <<>> /\ ~last.wrote
             /\ PersistedRows(last.quiz) = PersistedRows(0)
             /\ probe.ret.trace # <<>>

\* The view answered 201 and the service returned a quiz, each with its ten
\* questions committed.
C16_Witness ==
    /\ BothEnded
    /\ last.status = 201 /\ ~probe.ret.raised
    /\ last.quiz # probe.ret.quiz
    /\ Cardinality(PersistedRows(last.quiz).Question) = NumQuestions
    /\ Cardinality(PersistedRows(probe.ret.quiz).Question) = NumQuestions


====
